---- MODULE Spec2Model ----
(***************************************************************************)
(* Model of the context-aware SRT translation pipeline:                    *)
(*   src/src/srt_parser.py   SRTParser.parse / reconstruct, create_chunks  *)
(*   src/src/translator.py   SubtitleTranslator.translate/_translate_chunk *)
(*   src/src/services/*.py   the two translation backends                  *)
(*                                                                         *)
(* A Python str is modelled as a sequence of tokens.  A token is either a  *)
(* single control/whitespace character ("\n", "\r", " "), a punctuation    *)
(* mark of a numbered reply line (")", ".", ":"), or a run of other        *)
(* characters ("12", "00:00:01,000", "-->", "u1").                         *)
(* String operations (strip, split, join, replace, re.split, int, str,     *)
(* regex match, f-strings) are computed on these sequences the way the     *)
(* Python code computes them on characters.                                *)
(*                                                                         *)
(* Specifications:                                                         *)
(*   Spec         one translation job                                      *)
(*   FaultSpec    a job whose settings may make the windowing raise        *)
(*   CodecSpec    parse, create_chunks and reconstruct on their own        *)
(*   BackendSpec  one call of one backend's translate                      *)
(*   SharedSpec   several jobs of one process on the shared semaphore      *)
(*   LiveSpec     one translation job under the event loop's scheduling    *)
(***************************************************************************)
EXTENDS Integers, Sequences, FiniteSets, TLC

(***************************************************************************)
(* Bounds of the model.  The two settings are configuration values of the  *)
(* program (src/src/config.py:26,29); they are kept small so that a job    *)
(* has more windows than concurrency slots.                                *)
(***************************************************************************)
MaxBlocks == 3

MaxConcurrentRequests == 2

ContextWindowSize == 2

\* CodecSpec: blocks per document, largest chunk size tried
MaxCodecBlocks == 3

MaxChunkSize == 3

(***************************************************************************)
(* Python str helpers                                                      *)
(***************************************************************************)
Whitespace == {" ", "\t", "\n", "\r"}

NL == <<"\n">>

SetMin(S) == CHOOSE x \in S : \A y \in S : x <= y

SetMax(S) == CHOOSE x \in S : \A y \in S : x >= y

\* str.strip(): drop leading and trailing whitespace
Strip(s) ==
    LET keep == {i \in 1..Len(s) : s[i] \notin Whitespace}
    IN  IF keep = {} THEN <<>> ELSE SubSeq(s, SetMin(keep), SetMax(keep))

\* str.split(sep) for a one-character separator; "".split(sep) = [""]
Split(s, sep) ==
    LET F[i \in 0..Len(s)] ==
            IF i = 0 THEN << <<>> >>
            ELSE LET parts == F[i-1]
                 IN  IF s[i] = sep THEN Append(parts, <<>>)
                     ELSE [parts EXCEPT ![Len(parts)] = Append(@, s[i])]
    IN  F[Len(s)]

\* sep.join(parts)
Join(parts, sep) ==
    LET F[i \in 0..Len(parts)] ==
            IF i = 0 THEN <<>>
            ELSE IF i = 1 THEN parts[1]
            ELSE F[i-1] \o sep \o parts[i]
    IN  F[Len(parts)]

\* content.replace("\r\n", "\n").replace("\r", "\n")
NormalizeLineEndings(s) ==
    LET keep == {i \in 1..Len(s) :
                    ~(s[i] = "\r" /\ i < Len(s) /\ s[i+1] = "\n")}
        F[i \in 0..Len(s)] ==
            IF i = 0 THEN <<>>
            ELSE IF i \notin keep THEN F[i-1]
            ELSE Append(F[i-1], IF s[i] = "\r" THEN "\n" ELSE s[i])
    IN  F[Len(s)]

\* re.split(r"\n\n+", s): split at every maximal run of two or more "\n"
RECURSIVE ReSplitBlank(_)
ReSplitBlank(s) ==
    LET starts == {i \in 1..(Len(s) - 1) : s[i] = "\n" /\ s[i+1] = "\n"}
    IN  IF starts = {} THEN <<s>>
        ELSE LET i == SetMin(starts)
                 after == {j \in (i+1)..Len(s) : s[j] # "\n"}
                 rest == IF after = {} THEN <<>>
                         ELSE SubSeq(s, SetMin(after), Len(s))
             IN  <<SubSeq(s, 1, i - 1)>> \o ReSplitBlank(rest)

\* Decimal literals accepted by int() and their values
IntValue == ("1" :> 1) @@ ("2" :> 2) @@ ("3" :> 3) @@ ("4" :> 4) @@
            ("5" :> 5) @@ ("01" :> 1) @@ ("02" :> 2)

\* int(s) raises ValueError unless s is a decimal literal
IsInt(s) == Len(s) = 1 /\ s[1] \in DOMAIN IntValue

ParseInt(s) == IntValue[s[1]]

\* str(n) as used by the f-string of reconstruct
IntStr(n) == << <<"1">>, <<"2">>, <<"3">>, <<"4">>, <<"5">> >>[n]

(***************************************************************************)
(* models.py: SubtitleEntry, TranslationChunk                              *)
(***************************************************************************)
\* tokens of the shape \d{2}:\d{2}:\d{2}[,\.]\d{3}
TimeTokens == {"00:00:01,000", "00:00:02,000", "00:00:03,000",
               "00:00:04,000", "00:00:05,000", "00:00:06.000"}

SubtitleEntry(index, start_time, end_time, text) ==
    [index |-> index, start_time |-> start_time,
     end_time |-> end_time, text |-> text]

\* SubtitleEntry.timestamp: f"{self.start_time} --> {self.end_time}"
Timestamp(entry) ==
    <<entry.start_time, " ", "-->", " ", entry.end_time>>

TranslationChunk(sentences) == [sentences |-> sentences]

(***************************************************************************)
(* srt_parser.py                                                           *)
(***************************************************************************)
\* TIMESTAMP_PATTERN.match(line): <<start, end>> on a match, <<>> otherwise.
\* match() anchors at the start only; text after the end time is ignored.
TimestampMatch(line) ==
    LET nonws(from) == {i \in from..Len(line) : line[i] \notin Whitespace}
    IN  IF Len(line) = 0 \/ line[1] \notin TimeTokens \/ nonws(2) = {}
        THEN <<>>
        ELSE LET a == SetMin(nonws(2))
             IN  IF line[a] # "-->" \/ nonws(a + 1) = {} THEN <<>>
                 ELSE LET b == SetMin(nonws(a + 1))
                      IN  IF line[b] \in TimeTokens
                          THEN <<line[1], line[b]>> ELSE <<>>

\* SRTParser._parse_block: <<entry>> for an accepted block, <<>> for None
ParseBlock(block) ==
    LET lines == Split(Strip(block), "\n")
    IN  IF Len(lines) < 3 THEN <<>>
        ELSE IF ~IsInt(Strip(lines[1])) THEN <<>>
        ELSE LET m == TimestampMatch(Strip(lines[2]))
             IN  IF m = <<>> THEN <<>>
                 ELSE << SubtitleEntry(
                            ParseInt(Strip(lines[1])), m[1], m[2],
                            Strip(Join(SubSeq(lines, 3, Len(lines)), NL))) >>

\* a unit map with one pair per entry instead of one per line
EntryMap_FirstLineOnly(entry_index, text) ==
    << <<entry_index, 0>> >>

\* the (entry_index, line_index) pairs appended for one accepted entry
EntryMap(entry_index, text) ==
    [line_index1 \in 1..Len(Split(text, "\n")) |->
        <<entry_index, line_index1 - 1>>]

\* a parse that stops at the first block _parse_block rejects
Parse_StopAtMalformed(content) ==
    LET blocks == ReSplitBlank(Strip(NormalizeLineEndings(content)))
        F[k \in 0..Len(blocks)] ==
            IF k = 0
            THEN [entries |-> <<>>, sentence_map |-> <<>>, open |-> TRUE]
            ELSE LET entry == ParseBlock(blocks[k])
                     acc == F[k-1]
                 IN  IF entry = <<>> \/ ~acc.open
                     THEN [acc EXCEPT !.open = FALSE]
                     ELSE [entries |-> Append(acc.entries, entry[1]),
                           sentence_map |-> acc.sentence_map \o
                               EntryMap(Len(acc.entries), entry[1].text),
                           open |-> TRUE]
    IN  [entries |-> F[Len(blocks)].entries,
         sentence_map |-> F[Len(blocks)].sentence_map]

\* SRTParser.parse
Parse(content) ==
    LET blocks == ReSplitBlank(Strip(NormalizeLineEndings(content)))
        F[k \in 0..Len(blocks)] ==
            IF k = 0 THEN [entries |-> <<>>, sentence_map |-> <<>>]
            ELSE LET entry == ParseBlock(blocks[k])
                     acc == F[k-1]
                 IN  IF entry = <<>> THEN acc
                     ELSE [entries |-> Append(acc.entries, entry[1]),
                           sentence_map |-> acc.sentence_map \o
                               EntryMap(Len(acc.entries), entry[1].text)]
    IN  F[Len(blocks)]

\* ParsedSubtitle.sentences
Sentences(parsed) ==
    LET F[k \in 0..Len(parsed.entries)] ==
            IF k = 0 THEN <<>>
            ELSE F[k-1] \o Split(parsed.entries[k].text, "\n")
    IN  F[Len(parsed.entries)]

\* bug: the units beyond the unit map are appended to the last entry
EntryTexts_SurplusToLast(parsed, translated_sentences) ==
    LET n == Len(parsed.sentence_map)
        m == Len(translated_sentences)
        keys == {parsed.sentence_map[i][1] : i \in 1..(IF n < m THEN n ELSE m)}
        F[i \in 0..m] ==
            IF i = 0 THEN [e \in keys |-> <<>>]
            ELSE IF n = 0 THEN F[i-1]
            ELSE [F[i-1] EXCEPT ![parsed.sentence_map[IF i < n THEN i ELSE n][1]] =
                                    Append(@, translated_sentences[i])]
    IN  F[m]

\* entry_texts of reconstruct: the translated sentences grouped per entry
EntryTexts(parsed, translated_sentences) ==
    LET n == IF Len(parsed.sentence_map) < Len(translated_sentences)
             THEN Len(parsed.sentence_map) ELSE Len(translated_sentences)
        keys == {parsed.sentence_map[i][1] : i \in 1..n}
        F[i \in 0..n] ==
            IF i = 0 THEN [e \in keys |-> <<>>]
            ELSE [F[i-1] EXCEPT ![parsed.sentence_map[i][1]] =
                                    Append(@, translated_sentences[i])]
    IN  F[n]

\* output_blocks of reconstruct
OutputBlocks(parsed, translated_sentences) ==
    LET entry_texts == EntryTexts(parsed, translated_sentences)
    IN  [k \in 1..Len(parsed.entries) |->
            LET entry == parsed.entries[k]
                translated_text ==
                    IF (k - 1) \in DOMAIN entry_texts
                    THEN Join(entry_texts[k - 1], NL)
                    ELSE entry.text
            IN  IntStr(entry.index) \o NL \o Timestamp(entry) \o NL
                    \o translated_text]

\* bug: the blocks are joined by a line break, without the blank line
Reconstruct_SingleNewline(parsed, translated_sentences) ==
    Join(OutputBlocks(parsed, translated_sentences), NL)

\* SRTParser.reconstruct
Reconstruct(parsed, translated_sentences) ==
    Join(OutputBlocks(parsed, translated_sentences), <<"\n", "\n">>)

\* bug: the translated text is written into the entries of the document
ReconstructCall_InPlace(parsed, translated_sentences) ==
    LET entry_texts == EntryTexts(parsed, translated_sentences)
    IN  [output |-> Reconstruct(parsed, translated_sentences),
         parsed |-> [parsed EXCEPT !.entries =
                        [k \in 1..Len(parsed.entries) |->
                            IF (k - 1) \in DOMAIN entry_texts
                            THEN [parsed.entries[k] EXCEPT
                                     !.text = Join(entry_texts[k - 1], NL)]
                            ELSE parsed.entries[k]]],
         translated_sentences |-> translated_sentences]

\* a call of reconstruct: the value returned, and the two arguments as they
\* are after the call (entry_texts and output_blocks are new objects; no
\* attribute or item of an argument is assigned)
ReconstructCall(parsed, translated_sentences) ==
    [output |-> Reconstruct(parsed, translated_sentences),
     parsed |-> parsed,
     translated_sentences |-> translated_sentences]

\* range(0, len(sentences), chunk_size) raises ValueError for a zero step
RangeRaises(chunk_size) == chunk_size = 0

\* create_chunks without the last, partial window
CreateChunks_DropsRemainder(sentences, chunk_size) ==
    LET n == Len(sentences) \div chunk_size
    IN  [k \in 1..n |->
            TranslationChunk(
                SubSeq(sentences, (k - 1) * chunk_size + 1, k * chunk_size))]

\* create_chunks
CreateChunks(sentences, chunk_size) ==
    LET n == (Len(sentences) + chunk_size - 1) \div chunk_size
    IN  [k \in 1..n |->
            TranslationChunk(
                SubSeq(sentences, (k - 1) * chunk_size + 1,
                       IF k * chunk_size < Len(sentences)
                       THEN k * chunk_size ELSE Len(sentences)))]

(***************************************************************************)
(* Inputs: SRT documents of up to MaxBlocks blocks.  A block is a cue with *)
(* one text line, a cue with two text lines, or a malformed block without  *)
(* a timestamp line.  Text lines are pairwise distinct, so that a unit is  *)
(* identified by its text.                                                 *)
(***************************************************************************)
Shapes == {"one", "two", "bad"}

IndexTok == <<"1", "2", "3", "4", "5">>

TimeTok == <<"00:00:01,000", "00:00:02,000", "00:00:03,000",
             "00:00:04,000", "00:00:05,000", "00:00:06.000">>

UnitTok == <<"u1", "u2", "u3", "u4", "u5", "u6", "u7", "u8", "u9", "u10">>

\* the text of block k whose first text line is the j-th of the document
BlockOf(shape, k, j) ==
    IF shape = "bad"
    THEN <<IndexTok[k], "\n", UnitTok[j], "\n", UnitTok[j + 1]>>
    ELSE <<IndexTok[k], "\n", TimeTok[k], " ", "-->", " ", TimeTok[k + 1],
           "\n", UnitTok[j]>>
         \o (IF shape = "two" THEN <<"\n", UnitTok[j + 1]>> ELSE <<>>)

LinesOf(shape) == IF shape = "one" THEN 1 ELSE 2

ContentOf(shapes) ==
    LET F[k \in 0..Len(shapes)] ==
            IF k = 0 THEN [blocks |-> <<>>, used |-> 0]
            ELSE [blocks |-> Append(F[k-1].blocks,
                                    BlockOf(shapes[k], k, F[k-1].used + 1)),
                  used |-> F[k-1].used + LinesOf(shapes[k])]
    IN  Join(F[Len(shapes)].blocks, <<"\n", "\n">>)

Contents ==
    {ContentOf(shapes) :
        shapes \in UNION {[1..n -> Shapes] : n \in 0..MaxBlocks}}

(***************************************************************************)
(* services: the outcome of one backend call                               *)
(***************************************************************************)
\* Optional[str]: None is <<>>, a string s is <<s>>
None == <<>>

Some(s) == <<s>>

TranslationResult(translated_texts, success, error, service_used) ==
    [translated_texts |-> translated_texts, success |-> success,
     error |-> error, service_used |-> service_used]

\* [""] * n
EmptyTexts(n) == [i \in 1..n |-> <<>>]

\* padding without the final slice
PadTruncate_PadOnly(results, expected_count) ==
    [i \in 1..(IF Len(results) > expected_count THEN Len(results)
               ELSE expected_count) |->
        IF i <= Len(results) THEN results[i] ELSE <<>>]

\* while len(results) < expected_count: results.append("")
\* return results[:expected_count]
PadTruncate(results, expected_count) ==
    [i \in 1..expected_count |->
        IF i <= Len(results) THEN results[i] ELSE <<>>]

\* what the remote service answers for one text
OpenAIText(text) == <<"oa:">> \o text

DeepLText(text) == <<"dl:">> \o text

\* the item lists a remote reply may carry: all items, one too few, one extra
RawReplies(full) ==
    {full, Append(full, <<"extra">>)}
    \cup (IF Len(full) > 0 THEN {SubSeq(full, 1, Len(full) - 1)} ELSE {})

OpenAIError == <<"openai", " ", "error">>

\* str.isdigit() of a stripped prefix
IsDigit(s) == Len(s) = 1 /\ s[1] \in DOMAIN IntValue

\* for sep in [") ", ". ", ": ", ")"]
SepList == << <<")", " ">>, <<".", " ">>, <<":", " ">>, <<")">> >>

\* the positions where sep occurs in line
Occurrences(line, sep) ==
    {i \in 1..(Len(line) - Len(sep) + 1) :
        SubSeq(line, i, i + Len(sep) - 1) = sep}

\* sep in line and parts[0].strip().isdigit(), for parts = line.split(sep, 1)
NumberPrefix(line, sep) ==
    /\ Occurrences(line, sep) # {}
    /\ IsDigit(Strip(SubSeq(line, 1, SetMin(Occurrences(line, sep)) - 1)))

\* the text taken from one stripped, non-empty line of the reply
ExtractLine(line) ==
    LET hits == {n \in 1..Len(SepList) : NumberPrefix(line, SepList[n])}
    IN  IF hits = {} THEN line
        ELSE LET sep == SepList[SetMin(hits)]
                 at == SetMin(Occurrences(line, sep))
             IN  Strip(SubSeq(line, at + Len(sep), Len(line)))

\* the results of _parse_response before padding and truncation
ExtractLines(response_text) ==
    LET lines == Split(Strip(response_text), "\n")
        kept == SelectSeq([i \in 1..Len(lines) |-> Strip(lines[i])],
                          LAMBDA line : line # <<>>)
    IN  [i \in 1..Len(kept) |-> ExtractLine(kept[i])]

\* OpenAITranslationService._parse_response
ParseResponse(response_text, expected_count) ==
    PadTruncate(ExtractLines(response_text), expected_count)

\* what awaiting chat.completions.create ends with: a message content
\* (None is read as ""), or an exception of the client library
Content(response_text) == [kind |-> "content", content |-> response_text]

Exception(message) == [kind |-> "exception", message |-> message]

\* a 200 response of DeepL with the items of its "translations", or a
\* response with an error status
Json(translations) == [kind |-> "json", translations |-> translations]

Status(code) == [kind |-> "status", code |-> code]

\* the result of translate that the caller sees: a TranslationResult, or
\* Propagated when an exception leaves the method
Propagated == [kind |-> "propagated"]

\* a translate whose except clause lets the exception through
OpenAIOutcome_Propagates(texts, reply) ==
    IF Len(texts) = 0
    THEN TranslationResult(<<>>, TRUE, None, "openai")
    ELSE IF reply.kind = "content"
    THEN TranslationResult(ParseResponse(reply.content, Len(texts)),
                           TRUE, None, "openai")
    ELSE Propagated

\* OpenAITranslationService.translate for one outcome of the remote call
OpenAIOutcome(texts, reply) ==
    IF Len(texts) = 0
    THEN TranslationResult(<<>>, TRUE, None, "openai")
    ELSE IF reply.kind = "content"
    THEN TranslationResult(ParseResponse(reply.content, Len(texts)),
                           TRUE, None, "openai")
    ELSE TranslationResult(EmptyTexts(Len(texts)), FALSE,
                           Some(reply.message), "openai")

DeepLKeyError == <<"DeepL", " ", "API", " ", "key", " ", "not", " ",
                   "configured">>

\* DeepLTranslationService.translate for one outcome of the remote call
DeepLOutcome(texts, api_key, reply) ==
    IF Len(texts) = 0
    THEN TranslationResult(<<>>, TRUE, None, "deepl")
    ELSE IF api_key = <<>>
    THEN TranslationResult(EmptyTexts(Len(texts)), FALSE,
                           Some(DeepLKeyError), "deepl")
    ELSE IF reply.kind = "json"
    THEN TranslationResult(PadTruncate(reply.translations, Len(texts)),
                           TRUE, None, "deepl")
    ELSE IF reply.kind = "status"
    THEN TranslationResult(EmptyTexts(Len(texts)), FALSE,
                           Some(<<"DeepL", " ", "API", " ", "error:", " ">>
                                \o reply.code), "deepl")
    ELSE TranslationResult(EmptyTexts(Len(texts)), FALSE,
                           Some(reply.message), "deepl")

\* a reply of numbered lines: "1) text" is the format the prompt asks for
Numbered(items, sep) ==
    Join([i \in 1..Len(items) |-> IntStr(i) \o sep \o items[i]], NL)

ApiKey == <<"key">>

\* OpenAITranslationService.translate: the results it can return
OpenAITranslate(texts) ==
    {OpenAIOutcome(texts, Content(Numbered(raw, SepList[1]))) :
        raw \in RawReplies([i \in 1..Len(texts) |-> OpenAIText(texts[i])])}
    \cup {OpenAIOutcome(texts, Exception(OpenAIError))}

\* DeepLTranslationService.translate: the results it can return
DeepLTranslate(texts) ==
    {DeepLOutcome(texts, ApiKey, Json(raw)) :
        raw \in RawReplies([i \in 1..Len(texts) |-> DeepLText(texts[i])])}
    \cup {DeepLOutcome(texts, ApiKey, Status(<<"500">>))}

(***************************************************************************)
(* translator.py: state of one SubtitleTranslator running one job          *)
(***************************************************************************)
VARIABLES
    settings,             \* self._settings (Settings)
    codec,                \* a run of the SRT codec on its own (CodecSpec)
    backend,              \* a run of one backend call on its own (BackendSpec)
    srt_content,          \* argument of translate()
    phase,                \* position of translate(): Parsing .. Done
    parsed,               \* local `parsed`
    chunks,               \* local `chunks`
    stats,                \* local `stats` (TranslationStats)
    semaphore,            \* self._semaphore: number of free slots
    pc,                   \* position of each _translate_chunk task
    call,                 \* texts of the backend call a task is awaiting
    primary_result,       \* local `result` of a task after a primary failure
    results,              \* the list asyncio.gather is filling
    outcome,              \* how each task ended (history)
    overtaken,            \* some task ended before a lower-numbered one (history)
    calls,                \* backend calls each task has started (history)
    pool,                 \* several jobs on one translator (SharedSpec)
    translated_sentences, \* local `translated_sentences`
    job                   \* the TranslationJob returned: <<>> until the return

vars == <<settings, codec, backend, srt_content, phase, parsed, chunks, stats, semaphore, pc, call,
          primary_result, results, outcome, overtaken, calls, pool,
          translated_sentences, job>>

Placeholder == <<"[Translation", " ", "Error]">>

\* TranslationStats()
TranslationStats ==
    [total_sentences |-> 0, translated_sentences |-> 0, failed_sentences |-> 0,
     openai_calls |-> 0, deepl_calls |-> 0]

TranslationJob(translated_content, status, job_stats, error) ==
    [translated_content |-> translated_content, status |-> status,
     stats |-> job_stats, error |-> error]

\* asyncio.Semaphore(self._settings.max_concurrent_requests)
SemaphoreInit == MaxConcurrentRequests

\* bug: a task is admitted when no slot is free
Locked_OffByOne(value) == value < 0

\* Semaphore.locked(): acquire() suspends the task while this holds
Locked(value) == value = 0

\* bug: the slot is released on a return only, not on an exception
ExitSlot_NoFinally(value, how) == IF how = "raise" THEN value ELSE value + 1

\* leaving `async with self._semaphore` by a return or by an exception:
\* __aexit__ releases the slot in both cases
ExitSlot(value, how) == value + 1

\* bug: the counter is read before the await and written after it, so
\* that the increment of a task that ended in between is lost
Increment_LostUpdate(value) == IF value > 0 THEN value ELSE value + 1

\* `counter += 1`, read and written with no suspension point in between
Increment(value) == value + 1

\* bug: the primary call is counted before its outcome is tested
CountPrimary_Always(job_stats, result) ==
    [job_stats EXCEPT !.openai_calls = Increment(@)]

\* `if result.success: stats.openai_calls += 1`
CountPrimary(job_stats, result) ==
    IF result.success THEN [job_stats EXCEPT !.openai_calls = Increment(@)]
    ELSE job_stats

\* `if fallback_result.success: stats.deepl_calls += 1`
CountFallback(job_stats, fallback_result) ==
    IF fallback_result.success
    THEN [job_stats EXCEPT !.deepl_calls = Increment(@)]
    ELSE job_stats

\* str(e) of an exception raised by the primary service
PrimaryRaised == <<"primary", " ", "raised">>

\* bug: an exception of the primary call is handled like a failure outcome
AfterPrimaryException_Fallback == "fallback"

\* no try statement encloses the await of the primary call: an exception
\* leaves `async with` and the task
AfterPrimaryException == "raise"

\* bug: the fallback is called whatever the primary returned
NeedsFallback_Always(result) == TRUE

\* `if result.success: ... return`: the fallback is reached on a failure only
NeedsFallback(result) == ~result.success

\* bug: the fallback is given the texts of the failed primary result
FallbackTexts_FromPrimary(chunk, result) == result.translated_texts

\* the texts handed to self._fallback.translate after a primary failure
FallbackTexts(chunk, result) == chunk.sentences

\* RuntimeError(f"Translation failed: {result.error} / {fallback_result.error}")
BothFailed(result, fallback_result) ==
    <<"Translation", " ", "failed:", " ">> \o result.error[1]
        \o <<" ", "/", " ">> \o fallback_result.error[1]

\* an element of the list returned by gather(..., return_exceptions=True)
Pending == [kind |-> "pending", value |-> <<>>, error |-> <<>>]

Returned(texts) == [kind |-> "value", value |-> texts, error |-> <<>>]

Raised(message) == [kind |-> "exception", value |-> <<>>, error |-> message]

\* bug: results collected in completion order (as asyncio.as_completed does)
GatherSlot_Completion(w, rank) == rank

\* gather keeps the order of the awaitables: the result of the w-th task
\* goes to position w, whatever the rank at which the task finished
GatherSlot(w, rank) == w

\* bug: gather without return_exceptions returns at the first exception
GatherDone_FirstException(task_pc, task_results) ==
    \/ \A w \in DOMAIN task_pc : task_pc[w] = "done"
    \/ \E w \in DOMAIN task_results : task_results[w].kind = "exception"

\* bug: the wait returns when the first task has ended
GatherDone_AnyEnded(task_pc, task_results) ==
    \E w \in DOMAIN task_pc : task_pc[w] = "done"

\* gather(..., return_exceptions=True) returns when every task has ended
GatherDone(task_pc, task_results) ==
    \A w \in DOMAIN task_pc : task_pc[w] = "done"

\* bug: a failed chunk is counted as one failed sentence
FailedUnits_One(chunk) == 1

\* chunk_size = len(chunks[i].sentences)
FailedUnits(chunk) == Len(chunk.sentences)

\* bug: a failed chunk keeps its source sentences instead of placeholders
Flatten_KeepSource(gathered, job_chunks, job_stats) ==
    LET F[i \in 0..Len(gathered)] ==
            IF i = 0 THEN [translated_sentences |-> <<>>, stats |-> job_stats]
            ELSE IF gathered[i].kind = "exception"
            THEN [translated_sentences |->
                      F[i-1].translated_sentences \o job_chunks[i].sentences,
                  stats |-> [F[i-1].stats EXCEPT
                                !.failed_sentences =
                                    @ + Len(job_chunks[i].sentences)]]
            ELSE [translated_sentences |->
                      F[i-1].translated_sentences \o gathered[i].value,
                  stats |-> [F[i-1].stats EXCEPT
                                !.translated_sentences =
                                    @ + Len(gathered[i].value)]]
    IN  F[Len(gathered)]

\* bug: a failed chunk contributes a single placeholder
Flatten_PlaceholderOnce(gathered, job_chunks, job_stats) ==
    LET F[i \in 0..Len(gathered)] ==
            IF i = 0 THEN [translated_sentences |-> <<>>, stats |-> job_stats]
            ELSE IF gathered[i].kind = "exception"
            THEN [translated_sentences |->
                      Append(F[i-1].translated_sentences, Placeholder),
                  stats |-> [F[i-1].stats EXCEPT
                                !.failed_sentences =
                                    @ + Len(job_chunks[i].sentences)]]
            ELSE [translated_sentences |->
                      F[i-1].translated_sentences \o gathered[i].value,
                  stats |-> [F[i-1].stats EXCEPT
                                !.translated_sentences =
                                    @ + Len(gathered[i].value)]]
    IN  F[Len(gathered)]

\* the loop "Flatten results and handle errors"
Flatten(gathered, job_chunks, job_stats) ==
    LET F[i \in 0..Len(gathered)] ==
            IF i = 0 THEN [translated_sentences |-> <<>>, stats |-> job_stats]
            ELSE IF gathered[i].kind = "exception"
            THEN LET chunk_size == FailedUnits(job_chunks[i])
                 IN  [translated_sentences |->
                          F[i-1].translated_sentences
                              \o [j \in 1..chunk_size |-> Placeholder],
                      stats |-> [F[i-1].stats EXCEPT
                                    !.failed_sentences = @ + chunk_size]]
            ELSE [translated_sentences |->
                      F[i-1].translated_sentences \o gathered[i].value,
                  stats |-> [F[i-1].stats EXCEPT
                                !.translated_sentences =
                                    @ + Len(gathered[i].value)]]
    IN  F[Len(gathered)]

\* bug: the partial test uses >= instead of >
FinalStatus_NonStrict(job_stats) ==
    IF job_stats.failed_sentences = 0 THEN "success"
    ELSE IF job_stats.translated_sentences >= 0 THEN "partial"
    ELSE "failure"

\* bug: any translated sentence makes the job a success
FinalStatus_AnyTranslated(job_stats) ==
    IF job_stats.translated_sentences > 0 THEN "success"
    ELSE IF job_stats.failed_sentences = 0 THEN "success"
    ELSE "failure"

\* bug: the zero-translated test comes first
FinalStatus_ZeroFirst(job_stats) ==
    IF job_stats.translated_sentences = 0 THEN "failure"
    ELSE IF job_stats.failed_sentences = 0 THEN "success"
    ELSE "partial"

\* "Determine final status"
FinalStatus(job_stats) ==
    IF job_stats.failed_sentences = 0 THEN "success"
    ELSE IF job_stats.translated_sentences > 0 THEN "partial"
    ELSE "failure"

\* the backend calls a task has started so far
NoCalls == [openai |-> 0, deepl |-> 0]

Windows == DOMAIN pc

InFlight == {w \in Windows : pc[w] \in {"primary", "fallback"}}

Ended == {w \in Windows : pc[w] = "done"}

\* the variables of a job
jobvars == <<srt_content, phase, parsed, chunks, stats, semaphore, pc, call,
             primary_result, results, outcome, overtaken, calls,
             translated_sentences, job>>

\* the codec and the backend are not run on their own during a job
Idle == [step |-> "idle"]

\* Settings as far as translate() reads them
Settings(context_window_size) ==
    [context_window_size |-> context_window_size]

\* the state of a job when translate() is entered
JobInit ==
    /\ srt_content \in Contents
    /\ phase = "Parsing"
    /\ parsed = [entries |-> <<>>, sentence_map |-> <<>>]
    /\ chunks = <<>>
    /\ stats = TranslationStats
    /\ semaphore = SemaphoreInit
    /\ pc = <<>>
    /\ call = <<>>
    /\ primary_result = <<>>
    /\ results = <<>>
    /\ outcome = <<>>
    /\ overtaken = FALSE
    /\ calls = <<>>
    /\ translated_sentences = <<>>
    /\ job = <<>>

Init ==
    /\ settings = Settings(ContextWindowSize)
    /\ codec = Idle
    /\ backend = Idle
    /\ pool = Idle
    /\ JobInit

\* translate(): parse the content, count the sentences
ParseStep ==
    /\ phase = "Parsing"
    /\ parsed' = Parse(srt_content)
    /\ stats' = [stats EXCEPT !.total_sentences = Len(Sentences(parsed'))]
    /\ phase' = "Windowing"
    /\ UNCHANGED <<settings, codec, backend, pool, srt_content, chunks, semaphore, pc, call, primary_result,
                   results, outcome, calls, overtaken, translated_sentences, job>>

\* translate(): create the chunks and one task per chunk, await gather
CreateTasks ==
    /\ phase = "Windowing"
    /\ ~RangeRaises(settings.context_window_size)
    /\ chunks' = CreateChunks(Sentences(parsed), settings.context_window_size)
    /\ pc' = [w \in DOMAIN chunks' |-> "created"]
    /\ call' = [w \in DOMAIN chunks' |-> <<>>]
    /\ primary_result' = [w \in DOMAIN chunks' |-> <<>>]
    /\ results' = [w \in DOMAIN chunks' |-> Pending]
    /\ outcome' = [w \in DOMAIN chunks' |-> "none"]
    /\ calls' = [w \in DOMAIN chunks' |-> NoCalls]
    /\ phase' = "Translating"
    /\ UNCHANGED <<settings, codec, backend, pool, srt_content, parsed, stats, semaphore, overtaken,
                   translated_sentences, job>>

\* the task ends: its result (or exception) is stored by gather
EndTask(w, result, how) ==
    /\ pc' = [pc EXCEPT ![w] = "done"]
    /\ call' = [call EXCEPT ![w] = <<>>]
    /\ results' = [results EXCEPT ![GatherSlot(w, Cardinality(Ended) + 1)] = result]
    /\ outcome' = [outcome EXCEPT ![w] = how]
    /\ overtaken' = (overtaken \/ \E v \in Windows : v < w /\ pc[v] # "done")
    /\ calls' = calls
    /\ semaphore' = ExitSlot(semaphore, IF result.kind = "exception"
                                        THEN "raise" ELSE "return")

\* _translate_chunk: enter `async with self._semaphore`, call the primary
Acquire(w) ==
    /\ phase = "Translating"
    /\ pc[w] = "created"
    /\ ~Locked(semaphore)
    /\ semaphore' = semaphore - 1
    /\ pc' = [pc EXCEPT ![w] = "primary"]
    /\ call' = [call EXCEPT ![w] = [service |-> "openai",
                                    texts |-> chunks[w].sentences]]
    /\ calls' = [calls EXCEPT ![w].openai = @ + 1]
    /\ UNCHANGED <<settings, codec, backend, pool, srt_content, phase, parsed, chunks, stats, primary_result,
                   results, outcome, overtaken, translated_sentences, job>>

\* the primary call returns a success
PrimarySucceeds(w) ==
    /\ phase = "Translating"
    /\ pc[w] = "primary"
    /\ \E result \in OpenAITranslate(call[w].texts) :
        /\ result.success
        /\ stats' = CountPrimary(stats, result)
        /\ EndTask(w, Returned(result.translated_texts), "primary")
    /\ UNCHANGED <<settings, codec, backend, pool, srt_content, phase, parsed, chunks, primary_result,
                   translated_sentences, job>>

\* the primary call returns a failure: call the fallback
PrimaryFails(w) ==
    /\ phase = "Translating"
    /\ pc[w] = "primary"
    /\ \E result \in OpenAITranslate(call[w].texts) :
        /\ NeedsFallback(result)
        /\ stats' = CountPrimary(stats, result)
        /\ primary_result' = [primary_result EXCEPT ![w] = <<result>>]
        /\ call' = [call EXCEPT ![w] =
                        [service |-> "deepl",
                         texts |-> FallbackTexts(chunks[w], result)]]
    /\ pc' = [pc EXCEPT ![w] = "fallback"]
    /\ calls' = [calls EXCEPT ![w].deepl = @ + 1]
    /\ UNCHANGED <<settings, codec, backend, pool, srt_content, phase, parsed, chunks, semaphore,
                   results, outcome, overtaken, translated_sentences, job>>

\* the primary call raises (a TranslationService that does not catch)
PrimaryRaises(w) ==
    /\ phase = "Translating"
    /\ pc[w] = "primary"
    /\ IF AfterPrimaryException = "raise"
       THEN /\ EndTask(w, Raised(PrimaryRaised), "raised")
            /\ UNCHANGED primary_result
       ELSE /\ LET result == TranslationResult(
                                 EmptyTexts(Len(call[w].texts)), FALSE,
                                 Some(PrimaryRaised), "openai")
               IN  /\ primary_result' = [primary_result EXCEPT ![w] = <<result>>]
                   /\ call' = [call EXCEPT ![w] =
                                  [service |-> "deepl",
                                   texts |-> FallbackTexts(chunks[w], result)]]
            /\ pc' = [pc EXCEPT ![w] = "fallback"]
            /\ calls' = [calls EXCEPT ![w].deepl = @ + 1]
            /\ UNCHANGED <<semaphore, results, outcome, overtaken>>
    /\ UNCHANGED <<settings, codec, backend, pool, srt_content, phase, parsed,
                   chunks, stats, translated_sentences, job>>

\* the fallback call returns a success
FallbackSucceeds(w) ==
    /\ phase = "Translating"
    /\ pc[w] = "fallback"
    /\ \E fallback_result \in DeepLTranslate(call[w].texts) :
        /\ fallback_result.success
        /\ stats' = CountFallback(stats, fallback_result)
        /\ EndTask(w, Returned(fallback_result.translated_texts), "fallback")
    /\ UNCHANGED <<settings, codec, backend, pool, srt_content, phase, parsed, chunks, primary_result,
                   translated_sentences, job>>

\* the fallback call returns a failure too: raise RuntimeError
FallbackFails(w) ==
    /\ phase = "Translating"
    /\ pc[w] = "fallback"
    /\ \E fallback_result \in DeepLTranslate(call[w].texts) :
        /\ ~fallback_result.success
        /\ stats' = CountFallback(stats, fallback_result)
        /\ EndTask(w, Raised(BothFailed(primary_result[w][1], fallback_result)),
                   "failed")
    /\ UNCHANGED <<settings, codec, backend, pool, srt_content, phase, parsed, chunks, primary_result,
                   translated_sentences, job>>

\* the fallback call raises
FallbackRaises(w) ==
    /\ phase = "Translating"
    /\ pc[w] = "fallback"
    /\ EndTask(w, Raised(<<"fallback", " ", "raised">>), "raised")
    /\ UNCHANGED <<settings, codec, backend, pool, srt_content, phase, parsed, chunks, stats, primary_result,
                   translated_sentences, job>>

\* translate(): gather has returned; flatten the results
Aggregate ==
    /\ phase = "Translating"
    /\ GatherDone(pc, results)
    /\ LET flat == Flatten(results, chunks, stats)
       IN  /\ translated_sentences' = flat.translated_sentences
           /\ stats' = flat.stats
    /\ phase' = "Reconstructing"
    /\ UNCHANGED <<settings, codec, backend, pool, srt_content, parsed, chunks, semaphore, pc, call,
                   primary_result, results, outcome, calls, overtaken, job>>

\* translate(): reconstruct, determine the status, return the job
Finish ==
    /\ phase = "Reconstructing"
    /\ job' = << TranslationJob(Reconstruct(parsed, translated_sentences),
                                FinalStatus(stats), stats, None) >>
    /\ phase' = "Done"
    /\ UNCHANGED <<settings, codec, backend, pool, srt_content, parsed, chunks, stats, semaphore, pc, call,
                   primary_result, results, outcome, calls, overtaken,
                   translated_sentences>>

\* bug: the endpoint forwards the job as it is
TranslateSubtitleResponse_PassThrough(j) ==
    [translated_srt_content |-> j.translated_content, status |-> j.status,
     error_message |-> j.error, stats |-> j.stats]

\* main.py translate_subtitle: the TranslationResponse built from the job
\* (stats.to_dict() is kept as the stats record)
TranslateSubtitleResponse(j) ==
    IF j.status = "failure"
    THEN [translated_srt_content |-> <<>>, status |-> "failure",
          error_message |-> IF j.error = None \/ j.error = Some(<<>>)
                            THEN Some(<<"Translation", " ", "failed">>)
                            ELSE j.error,
          stats |-> j.stats]
    ELSE [translated_srt_content |-> j.translated_content,
          status |-> j.status, error_message |-> j.error, stats |-> j.stats]

\* bug: no handler at the job boundary, the exception leaves translate()
\* and no job is returned
HandleException_Propagate(job_stats, message) == <<>>

\* translate(): `except Exception as e` returns a failure job with str(e)
HandleException(job_stats, message) ==
    << TranslationJob(<<>>, "failure", job_stats, Some(message)) >>

\* translate(): create_chunks raises inside the try block
WindowingRaises ==
    /\ phase = "Windowing"
    /\ RangeRaises(settings.context_window_size)
    /\ job' = HandleException(stats,
                  <<"range()", " ", "arg", " ", "3", " ", "must", " ", "not",
                    " ", "be", " ", "zero">>)
    /\ phase' = "Done"
    /\ UNCHANGED <<settings, codec, backend, pool, srt_content, parsed, chunks,
                   stats, semaphore, pc, call, primary_result, results,
                   outcome, calls, overtaken, translated_sentences>>

Next ==
    \/ ParseStep
    \/ CreateTasks
    \/ \E w \in Windows : Acquire(w)
    \/ \E w \in Windows : PrimarySucceeds(w)
    \/ \E w \in Windows : PrimaryFails(w)
    \/ \E w \in Windows : PrimaryRaises(w)
    \/ \E w \in Windows : FallbackSucceeds(w)
    \/ \E w \in Windows : FallbackFails(w)
    \/ \E w \in Windows : FallbackRaises(w)
    \/ Aggregate
    \/ Finish

Spec == Init /\ [][Next]_vars

(***************************************************************************)
(* LiveSpec: the job under the scheduling the event loop gives it.  The    *)
(* coroutine of translate() and a task that can take a slot are resumed    *)
(* (asyncio runs every ready callback, and wakes the waiters of a released *)
(* semaphore); an awaited backend call returns, with a success, a failure  *)
(* or an exception.                                                        *)
(***************************************************************************)
\* the awaited primary call of some window ends
PrimaryReturns ==
    \E w \in Windows :
        PrimaryRaises(w) \/ PrimarySucceeds(w) \/ PrimaryFails(w)

\* ParseStep as the control flow sees it: parse() is total, so ParseStep is
\* enabled exactly when phase = "Parsing", and it is the only step that
\* moves phase from "Parsing" to "Windowing"
ParseProgress == phase = "Parsing" /\ phase' = "Windowing"

\* the awaited fallback call of some window ends
FallbackReturns ==
    \E w \in Windows :
        FallbackSucceeds(w) \/ FallbackFails(w) \/ FallbackRaises(w)

Fairness ==
    /\ WF_phase(ParseProgress)
    /\ WF_vars(CreateTasks)
    /\ WF_vars(\E w \in Windows : Acquire(w))
    /\ WF_vars(PrimaryReturns)
    /\ WF_vars(FallbackReturns)
    /\ WF_vars(Aggregate)
    /\ WF_vars(Finish)

LiveSpec == Init /\ [][Next]_vars /\ Fairness

(***************************************************************************)
(* FaultSpec: the same job, where the context_window_size setting may be 0 *)
(* (Settings does not validate it), so that windowing raises.              *)
(***************************************************************************)
InitFault ==
    /\ settings \in {Settings(0), Settings(ContextWindowSize)}
    /\ codec = Idle
    /\ backend = Idle
    /\ pool = Idle
    /\ JobInit

NextFault ==
    \/ ParseStep
    \/ CreateTasks
    \/ WindowingRaises
    \/ \E w \in Windows : Acquire(w)
    \/ \E w \in Windows : PrimarySucceeds(w)
    \/ \E w \in Windows : PrimaryFails(w)
    \/ \E w \in Windows : PrimaryRaises(w)
    \/ \E w \in Windows : FallbackSucceeds(w)
    \/ \E w \in Windows : FallbackFails(w)
    \/ \E w \in Windows : FallbackRaises(w)
    \/ Aggregate
    \/ Finish

FaultSpec == InitFault /\ [][NextFault]_vars

TypeOK ==
    /\ phase \in {"Parsing", "Windowing", "Translating", "Reconstructing", "Done"}
    /\ semaphore \in 0..(MaxConcurrentRequests + 1)
    /\ \A w \in Windows : pc[w] \in {"created", "primary", "fallback", "done"}

(***************************************************************************)
(* CodecSpec: the SRT codec and create_chunks run on their own.            *)
(* A document is a sequence of blocks of these shapes:                     *)
(*   one    index, timestamp, one text line                                *)
(*   two    the same with two text lines, "\r\n" line ends, "." in a time  *)
(*   loose  index " 01", no blanks around "-->", text after the end time,  *)
(*          three text lines, the middle one a single blank                *)
(*   short  index and timestamp only (fewer than 3 lines)                  *)
(*   noint  the index line is not an integer                               *)
(*   nots   the second line is not a timestamp range                       *)
(* joined by a blank-line separator.                                       *)
(***************************************************************************)
GoodShapes == {"one", "two", "loose"}

BadShapes == {"short", "noint", "nots"}

CodecShapes == GoodShapes \cup BadShapes

Separators == {<<"\n", "\n">>, <<"\r", "\n", "\r", "\n", "\n">>}

\* the text of block k whose first text line is the j-th of the document
CodecBlock(shape, k, j) ==
    CASE shape = "one" ->
            <<IndexTok[k], "\n", TimeTok[k], " ", "-->", " ", TimeTok[k + 1],
              "\n", UnitTok[j]>>
      [] shape = "two" ->
            <<IndexTok[k], "\r", "\n", TimeTok[k], " ", "-->", " ",
              "00:00:06.000", "\r", "\n", UnitTok[j], "\r", "\n",
              UnitTok[j + 1]>>
      [] shape = "loose" ->
            <<" ", "01", "\n", TimeTok[k], "-->", TimeTok[k + 1], " ", "junk",
              "\n", UnitTok[j], " ", "\n", " ", "\n", UnitTok[j + 1]>>
      [] shape = "short" ->
            <<IndexTok[k], "\n", TimeTok[k], " ", "-->", " ", TimeTok[k + 1]>>
      [] shape = "noint" ->
            <<"abc", "\n", TimeTok[k], " ", "-->", " ", TimeTok[k + 1],
              "\n", UnitTok[j]>>
      [] shape = "nots" ->
            <<IndexTok[k], "\n", UnitTok[j], "\n", UnitTok[j + 1]>>

\* number of text-line tokens a block of this shape takes
CodecLines(shape) ==
    CASE shape \in {"one", "noint"} -> 1
      [] shape \in {"two", "loose", "nots"} -> 2
      [] shape = "short" -> 0

\* the first text-line number of each block of the document
CodecFirstLine(shapes) ==
    LET F[k \in 1..Len(shapes)] ==
            IF k = 1 THEN 1 ELSE F[k-1] + CodecLines(shapes[k-1])
    IN  F

CodecDoc(shapes, sep) ==
    LET first == CodecFirstLine(shapes)
        body == Join([k \in 1..Len(shapes) |->
                        CodecBlock(shapes[k], k, first[k])], sep)
    IN  IF Len(sep) > 2 THEN <<"\n">> \o body \o <<"\n">> ELSE body

CodecDocs ==
    {[shapes |-> shapes, content |-> CodecDoc(shapes, sep)] :
        shapes \in UNION {[1..n -> CodecShapes] : n \in 0..MaxCodecBlocks},
        sep \in Separators}

\* what a translator returns for one sentence
Translated(text) == <<"tr:">> \o text

\* the translated lists handed to reconstruct: the sentences themselves,
\* their translations, every shorter list, a longer list, and the lists
\* with one empty string (the padding of the backends)
TranslatedLists(sentences) ==
    LET full == [i \in 1..Len(sentences) |-> Translated(sentences[i])]
    IN  {sentences, full, Append(full, <<"extra">>)}
        \cup {SubSeq(full, 1, m) : m \in 0..(Len(full) - 1)}
        \cup {[full EXCEPT ![i] = <<>>] : i \in 1..Len(full)}

NoDocument == [entries |-> <<>>, sentence_map |-> <<>>]

CodecState(step, shapes, content, doc, chunk_size, doc_chunks, translated, output, reparsed) ==
    [step |-> step, shapes |-> shapes, content |-> content, parsed |-> doc,
     chunk_size |-> chunk_size, chunks |-> doc_chunks,
     translated |-> translated, output |-> output, reparsed |-> reparsed]

\* no job runs in CodecSpec and BackendSpec
JobIdle ==
    /\ srt_content = <<>>
    /\ phase = "Idle"
    /\ parsed = NoDocument
    /\ chunks = <<>>
    /\ stats = TranslationStats
    /\ semaphore = SemaphoreInit
    /\ pc = <<>>
    /\ call = <<>>
    /\ primary_result = <<>>
    /\ results = <<>>
    /\ outcome = <<>>
    /\ overtaken = FALSE
    /\ calls = <<>>
    /\ translated_sentences = <<>>
    /\ job = <<>>

InitCodec ==
    /\ settings = Settings(ContextWindowSize)
    /\ backend = Idle
    /\ pool = Idle
    /\ JobIdle
    /\ \E d \in CodecDocs :
          codec = CodecState("input", d.shapes, d.content, NoDocument, 0,
                             <<>>, <<>>, <<>>, NoDocument)

\* SRTParser.parse(content)
CodecParse ==
    /\ codec.step = "input"
    /\ codec' = [codec EXCEPT !.step = "parsed",
                              !.parsed = Parse(codec.content)]
    /\ UNCHANGED <<settings, backend, pool, jobvars>>

\* list(create_chunks(parsed.sentences, chunk_size))
CodecChunk ==
    /\ codec.step = "parsed"
    /\ \E chunk_size \in 1..MaxChunkSize :
          codec' = [codec EXCEPT
                        !.step = "chunked",
                        !.chunk_size = chunk_size,
                        !.chunks = CreateChunks(Sentences(codec.parsed),
                                                chunk_size)]
    /\ UNCHANGED <<settings, backend, pool, jobvars>>

\* the caller builds the list of translated sentences
CodecTranslate ==
    /\ codec.step = "parsed"
    /\ \E translated \in TranslatedLists(Sentences(codec.parsed)) :
          codec' = [codec EXCEPT !.step = "translated",
                                 !.translated = translated]
    /\ UNCHANGED <<settings, backend, pool, jobvars>>

\* SRTParser.reconstruct(parsed, translated)
CodecReconstruct ==
    /\ codec.step = "translated"
    /\ LET after == ReconstructCall(codec.parsed, codec.translated)
       IN  codec' = [codec EXCEPT
                        !.step = "reconstructed",
                        !.parsed = after.parsed,
                        !.translated = after.translated_sentences,
                        !.output = after.output]
    /\ UNCHANGED <<settings, backend, pool, jobvars>>

\* SRTParser.parse(output): the reconstructed text parsed again
CodecReparse ==
    /\ codec.step = "reconstructed"
    /\ codec' = [codec EXCEPT !.step = "reparsed",
                              !.reparsed = Parse(codec.output)]
    /\ UNCHANGED <<settings, backend, pool, jobvars>>

NextCodec ==
    \/ CodecParse
    \/ CodecChunk
    \/ CodecTranslate
    \/ CodecReconstruct
    \/ CodecReparse

CodecSpec == InitCodec /\ [][NextCodec]_vars

(***************************************************************************)
(* BackendSpec: one call of one backend's translate, with every kind of    *)
(* answer of the remote service:                                           *)
(*   OpenAI  a message content listing all items, fewer (none included) or *)
(*           one more, numbered "1) ", "1. ", "1: ", "1)", not numbered,   *)
(*           or with blank lines around the numbered lines; an exception   *)
(*           of the client (connection, error status, no choices)          *)
(*   DeepL   a JSON body with all items, fewer or one more; an error       *)
(*           status; an exception (connection, undecodable body)           *)
(***************************************************************************)
MaxTexts == 3

\* requests of up to MaxTexts texts, of one word each or of two
BackendTexts ==
    {[i \in 1..n |-> <<UnitTok[i]>>] : n \in 0..MaxTexts}
    \cup {[i \in 1..n |-> <<UnitTok[i], " ", "w">>] : n \in 1..MaxTexts}

\* the item lists a remote service may send back for a request
ItemLists(full) ==
    {SubSeq(full, 1, m) : m \in 0..Len(full)} \cup {Append(full, <<"extra">>)}

Formats == {"paren", "dot", "colon", "tight", "plain", "spaced"}

\* the message content that carries the items in one of the formats
Formatted(items, format) ==
    CASE format = "paren" -> Numbered(items, SepList[1])
      [] format = "dot" -> Numbered(items, SepList[2])
      [] format = "colon" -> Numbered(items, SepList[3])
      [] format = "tight" -> Numbered(items, SepList[4])
      [] format = "plain" -> Join(items, NL)
      [] format = "spaced" ->
            <<"\n", " ">>
            \o Join([i \in 1..Len(items) |->
                        <<" ">> \o IntStr(i) \o SepList[1] \o items[i]],
                    <<"\n", " ", "\n">>)
            \o <<" ", "\n">>

ConnectionError == <<"Connection", " ", "error.">>

StatusError == <<"Error", " ", "code:", " ", "500">>

AuthenticationError == <<"Error", " ", "code:", " ", "401">>

NoChoices == <<"list", " ", "index", " ", "out", " ", "of", " ", "range">>

DecodeError == <<"Expecting", " ", "value:", " ", "line", " ", "1">>

\* no request is sent
NoReply == [kind |-> "none"]

\* <<items, reply>>: what the remote call may end with
OpenAIReplies(texts, api_key) ==
    IF Len(texts) = 0 THEN {<<<<>>, NoReply>>}
    ELSE IF api_key = <<>> THEN {<<<<>>, Exception(AuthenticationError)>>}
    ELSE {<<items, Content(Formatted(items, format))>> :
            items \in ItemLists([i \in 1..Len(texts) |-> OpenAIText(texts[i])]),
            format \in Formats}
         \cup {<<<<>>, Exception(m)>> :
                m \in {ConnectionError, StatusError, NoChoices}}

DeepLReplies(texts, api_key) ==
    IF Len(texts) = 0 \/ api_key = <<>> THEN {<<<<>>, NoReply>>}
    ELSE {<<items, Json(items)>> :
            items \in ItemLists([i \in 1..Len(texts) |-> DeepLText(texts[i])])}
         \cup {<<<<>>, Status(code)>> : code \in {<<"403">>, <<"500">>}}
         \cup {<<<<>>, Exception(m)>> : m \in {ConnectionError, DecodeError}}

BackendState(step, service, api_key, texts, items, reply, result) ==
    [step |-> step, service |-> service, api_key |-> api_key,
     texts |-> texts, items |-> items, reply |-> reply, result |-> result]

InitBackend ==
    /\ settings = Settings(ContextWindowSize)
    /\ codec = Idle
    /\ pool = Idle
    /\ \E service \in {"openai", "deepl"}, api_key \in {<<>>, ApiKey} :
           backend = BackendState("ready", service, api_key, <<>>, <<>>,
                                  NoReply, <<>>)
    /\ JobIdle

\* the orchestrator calls translate(texts, ...)
BackendCall ==
    /\ backend.step = "ready"
    /\ \E texts \in BackendTexts :
           backend' = [backend EXCEPT !.step = "called", !.texts = texts]
    /\ UNCHANGED <<settings, codec, pool, jobvars>>

\* OpenAITranslationService.translate runs to its end
OpenAIReturn ==
    /\ backend.step = "called"
    /\ backend.service = "openai"
    /\ \E r \in OpenAIReplies(backend.texts, backend.api_key) :
           backend' = [backend EXCEPT
                          !.step = "returned", !.items = r[1], !.reply = r[2],
                          !.result = <<OpenAIOutcome(backend.texts, r[2])>>]
    /\ UNCHANGED <<settings, codec, pool, jobvars>>

\* DeepLTranslationService.translate runs to its end
DeepLReturn ==
    /\ backend.step = "called"
    /\ backend.service = "deepl"
    /\ \E r \in DeepLReplies(backend.texts, backend.api_key) :
           backend' = [backend EXCEPT
                          !.step = "returned", !.items = r[1], !.reply = r[2],
                          !.result = <<DeepLOutcome(backend.texts,
                                                    backend.api_key, r[2])>>]
    /\ UNCHANGED <<settings, codec, pool, jobvars>>

NextBackend ==
    \/ BackendCall
    \/ OpenAIReturn
    \/ DeepLReturn

BackendSpec == InitBackend /\ [][NextBackend]_vars

(***************************************************************************)
(* SharedSpec: several translate() jobs running concurrently on the one    *)
(* SubtitleTranslator of the application (main.py lifespan).  Only the     *)
(* tasks and the semaphore are kept: every job has its own windows, all    *)
(* tasks enter `async with self._semaphore` of the same instance.          *)
(***************************************************************************)
MaxJobs == 2

MaxJobWindows == 2

Jobs == 1..MaxJobs

\* bug: a semaphore is created for every call of translate()
SemaphoreOf_PerJob(j) == j

\* self._semaphore is created once, in __init__: every job uses the same
SemaphoreOf(j) == "self._semaphore"

PoolState(running, task_pc, task_outcome, semaphores) ==
    [step |-> "shared", running |-> running, pc |-> task_pc,
     outcome |-> task_outcome, semaphore |-> semaphores]

InitShared ==
    /\ settings = Settings(ContextWindowSize)
    /\ codec = Idle
    /\ backend = Idle
    /\ JobIdle
    /\ pool = PoolState([j \in Jobs |-> "idle"], [j \in Jobs |-> <<>>],
                        [j \in Jobs |-> <<>>],
                        [o \in {SemaphoreOf(j) : j \in Jobs} |->
                            SemaphoreInit])

\* a request calls translate(): one task per window is created
PoolStart(j) ==
    /\ pool.running[j] = "idle"
    /\ \E n \in 1..MaxJobWindows :
           pool' = [pool EXCEPT !.running[j] = "translating",
                                !.pc[j] = [w \in 1..n |-> "created"],
                                !.outcome[j] = [w \in 1..n |-> "none"]]
    /\ UNCHANGED <<settings, codec, backend, jobvars>>

\* a task enters `async with self._semaphore` and calls the primary
PoolAcquire(j, w) ==
    /\ pool.running[j] = "translating"
    /\ pool.pc[j][w] = "created"
    /\ ~Locked(pool.semaphore[SemaphoreOf(j)])
    /\ pool' = [pool EXCEPT !.pc[j][w] = "primary",
                            !.semaphore[SemaphoreOf(j)] = @ - 1]
    /\ UNCHANGED <<settings, codec, backend, jobvars>>

\* the primary call returns a failure: the task calls the fallback
PoolFallback(j, w) ==
    /\ pool.running[j] = "translating"
    /\ pool.pc[j][w] = "primary"
    /\ pool' = [pool EXCEPT !.pc[j][w] = "fallback"]
    /\ UNCHANGED <<settings, codec, backend, jobvars>>

\* the task returns a translation (from the primary or from the fallback)
PoolReturn(j, w) ==
    /\ pool.running[j] = "translating"
    /\ pool.pc[j][w] \in {"primary", "fallback"}
    /\ pool' = [pool EXCEPT
                   !.pc[j][w] = "done",
                   !.outcome[j][w] = "returned",
                   !.semaphore[SemaphoreOf(j)] = ExitSlot(@, "return")]
    /\ UNCHANGED <<settings, codec, backend, jobvars>>

\* the task ends with an exception (both failed, or a call raised)
PoolRaise(j, w) ==
    /\ pool.running[j] = "translating"
    /\ pool.pc[j][w] \in {"primary", "fallback"}
    /\ pool' = [pool EXCEPT
                   !.pc[j][w] = "done",
                   !.outcome[j][w] = "raised",
                   !.semaphore[SemaphoreOf(j)] = ExitSlot(@, "raise")]
    /\ UNCHANGED <<settings, codec, backend, jobvars>>

\* gather returns: the job aggregates, reconstructs and returns
PoolFinish(j) ==
    /\ pool.running[j] = "translating"
    /\ GatherDone(pool.pc[j], pool.pc[j])
    /\ pool' = [pool EXCEPT !.running[j] = "done"]
    /\ UNCHANGED <<settings, codec, backend, jobvars>>

NextShared ==
    \/ \E j \in Jobs : PoolStart(j)
    \/ \E j \in Jobs : \E w \in DOMAIN pool.pc[j] : PoolAcquire(j, w)
    \/ \E j \in Jobs : \E w \in DOMAIN pool.pc[j] : PoolFallback(j, w)
    \/ \E j \in Jobs : \E w \in DOMAIN pool.pc[j] : PoolReturn(j, w)
    \/ \E j \in Jobs : \E w \in DOMAIN pool.pc[j] : PoolRaise(j, w)
    \/ \E j \in Jobs : PoolFinish(j)

SharedSpec == InitShared /\ [][NextShared]_vars

(***************************************************************************)
(* Vocabulary of the properties                                            *)
(***************************************************************************)
NumWindows == Len(chunks)

\* the window ended with an exception: no backend delivered a translation
TerminallyFailed(w) == outcome[w] \in {"failed", "raised"}

Succeeded(w) == outcome[w] \in {"primary", "fallback"}

\* number of units in the windows of S
UnitsOf(S) ==
    LET F[w \in 0..NumWindows] ==
            IF w = 0 THEN 0
            ELSE F[w-1] + (IF w \in S THEN Len(chunks[w].sentences) ELSE 0)
    IN  F[NumWindows]

\* the window holding unit i, and the position of unit i in it
WindowOf(i) ==
    CHOOSE w \in 1..NumWindows :
        UnitsOf(1..(w - 1)) < i /\ i <= UnitsOf(1..w)

OffsetOf(i) == i - UnitsOf(1..(WindowOf(i) - 1))

\* the units (positions in the flat list) of entry k (1-based)
UnitsOfEntry(k) ==
    {i \in 1..Len(parsed.sentence_map) : parsed.sentence_map[i][1] = k - 1}

\* s occurs in text as a contiguous piece
Contains(text, s) ==
    \E from \in 1..(Len(text) - Len(s) + 1) :
        SubSeq(text, from, from + Len(s) - 1) = s

\* the block of entry k with the given text lines
BlockWith(k, lines) ==
    IntStr(parsed.entries[k].index) \o NL \o Timestamp(parsed.entries[k])
        \o NL \o Join(lines, NL)

\* the units of entry k in order
UnitSeq(k) ==
    LET first == SetMin(UnitsOfEntry(k))
    IN  [l \in 1..Cardinality(UnitsOfEntry(k)) |-> first + l - 1]

Done == phase = "Done"

(***************************************************************************)
(* C1: after a primary failure the fallback is called with the window's    *)
(* own source units (chunk.sentences), for every window; a fallback        *)
(* success adds one to deepl_calls and leaves openai_calls alone.          *)
(***************************************************************************)
C1_FallbackCall ==
    \A w \in Windows :
        pc[w] = "fallback" =>
            call[w] = [service |-> "deepl", texts |-> chunks[w].sentences]

C1_FallbackCount ==
    \A w \in Windows :
        (pc[w] = "fallback" /\ outcome'[w] = "fallback") =>
            /\ stats'.deepl_calls = stats.deepl_calls + 1
            /\ stats'.openai_calls = stats.openai_calls

C1_Fallback == [](C1_FallbackCall) /\ [][C1_FallbackCount]_vars

C1_Witness ==
    /\ Done /\ NumWindows >= 2
    /\ \A w \in Windows : outcome[w] = "fallback"
    /\ stats.deepl_calls = NumWindows /\ stats.openai_calls = 0

(***************************************************************************)
(* C2: a job with a terminally failed window and a succeeding window ends  *)
(* partial, with failed_sentences the number of units of the terminally    *)
(* failed windows.                                                         *)
(***************************************************************************)
C2_PartialAccounting ==
    (Done /\ (\E w \in Windows : TerminallyFailed(w))
          /\ (\E w \in Windows : Succeeded(w))) =>
        /\ job[1].status = "partial"
        /\ job[1].stats.failed_sentences =
               UnitsOf({w \in Windows : TerminallyFailed(w)})

C2_Witness ==
    /\ Done /\ job[1].status = "partial"
    /\ \E w \in Windows : outcome[w] = "failed" /\ Len(chunks[w].sentences) = 2
    /\ \E w \in Windows : Succeeded(w)

(***************************************************************************)
(* C3 as stated: in a partial job the reconstructed text contains every    *)
(* entry of a terminally failed window with its source text, and every     *)
(* entry of succeeding windows with the translated text.                   *)
(***************************************************************************)
C3_FailedEntriesKeepSource ==
    (Done /\ job[1].status = "partial") =>
        \A k \in 1..Len(parsed.entries) :
            /\ (\A i \in UnitsOfEntry(k) : TerminallyFailed(WindowOf(i))) =>
                   Contains(job[1].translated_content,
                            BlockWith(k, Split(parsed.entries[k].text, "\n")))
            /\ (\A i \in UnitsOfEntry(k) : Succeeded(WindowOf(i))) =>
                   Contains(job[1].translated_content,
                            BlockWith(k, [l \in 1..Cardinality(UnitsOfEntry(k)) |->
                                results[WindowOf(UnitSeq(k)[l])]
                                    .value[OffsetOf(UnitSeq(k)[l])]]))

(***************************************************************************)
(* C3 amended: in a partial job the reconstructed text contains every      *)
(* entry with its index and timestamps, each line of a terminally failed   *)
(* window being the placeholder "[Translation Error]" and each line of a   *)
(* succeeding window the text the backend returned for it.                 *)
(***************************************************************************)
C3_FailedEntriesPlaceholder ==
    (Done /\ job[1].status = "partial") =>
        \A k \in 1..Len(parsed.entries) :
            Contains(job[1].translated_content,
                     BlockWith(k, [l \in 1..Cardinality(UnitsOfEntry(k)) |->
                        LET i == UnitSeq(k)[l]
                        IN  IF TerminallyFailed(WindowOf(i)) THEN Placeholder
                            ELSE results[WindowOf(i)].value[OffsetOf(i)]]))

C3_Witness ==
    /\ Done /\ job[1].status = "partial"
    /\ \E k \in 1..Len(parsed.entries) :
           \A i \in UnitsOfEntry(k) : outcome[WindowOf(i)] = "failed"
    /\ \E k \in 1..Len(parsed.entries) :
           \A i \in UnitsOfEntry(k) : Succeeded(WindowOf(i))

(***************************************************************************)
(* C4: when the job has a window and every window fails on both backends,  *)
(* the status is failure and translated_sentences is 0.                    *)
(***************************************************************************)
C4_TotalFailure ==
    (Done /\ NumWindows >= 1 /\ \A w \in Windows : outcome[w] = "failed") =>
        /\ job[1].status = "failure"
        /\ job[1].stats.translated_sentences = 0

C4_Witness ==
    /\ Done /\ NumWindows >= 2
    /\ \A w \in Windows : outcome[w] = "failed"
    /\ job[1].status = "failure"

(***************************************************************************)
(* C5: a completed job is a success when no unit failed, and partial when  *)
(* some unit failed and some unit was translated.                          *)
(***************************************************************************)
C5_StatusRule ==
    Done =>
        /\ (UnitsOf({w \in Windows : TerminallyFailed(w)}) = 0) =>
               job[1].status = "success"
        /\ (/\ UnitsOf({w \in Windows : TerminallyFailed(w)}) > 0
            /\ UnitsOf({w \in Windows : Succeeded(w)}) > 0) =>
               job[1].status = "partial"

C5_Witness ==
    /\ Done /\ job[1].status = "success"
    /\ job[1].stats.failed_sentences = 0
    /\ job[1].stats.translated_sentences >= 3

(***************************************************************************)
(* C6 as stated: a job that ends with translated_sentences = 0 has status  *)
(* failure, a job without entries included.                                *)
(***************************************************************************)
C6_ZeroTranslatedIsFailure ==
    (Done /\ job[1].stats.translated_sentences = 0) =>
        job[1].status = "failure"

(***************************************************************************)
(* C6 amended: a job that ends with translated_sentences = 0 and at least  *)
(* one failed unit has status failure; a job whose input has no accepted   *)
(* entry (no unit, no window) has status success.                          *)
(***************************************************************************)
C6_ZeroTranslatedAmended ==
    Done =>
        /\ (/\ job[1].stats.translated_sentences = 0
            /\ job[1].stats.failed_sentences > 0) =>
               job[1].status = "failure"
        /\ (Len(parsed.entries) = 0) =>
               (NumWindows = 0 /\ job[1].stats.total_sentences = 0
                /\ job[1].status = "success")

C6_Witness ==
    /\ Done /\ Len(parsed.entries) = 0 /\ Len(srt_content) > 0
    /\ job[1].stats.translated_sentences = 0
    /\ job[1].status = "success"

(***************************************************************************)
(* C7: whatever the order in which the windows end, position i of the flat *)
(* translated list holds the result of source unit i.                      *)
(***************************************************************************)
C7_DocumentOrder ==
    (phase \in {"Reconstructing", "Done"}) =>
        /\ Len(translated_sentences) = Len(Sentences(parsed))
        /\ \A i \in 1..Len(translated_sentences) :
            LET w == WindowOf(i)
                source == Sentences(parsed)[i]
                unit == translated_sentences[i]
            IN  /\ TerminallyFailed(w) => unit = Placeholder
                /\ outcome[w] = "primary" =>
                       unit \in {OpenAIText(source), <<>>}
                /\ outcome[w] = "fallback" =>
                       unit \in {DeepLText(source), <<>>}

C7_Witness ==
    /\ phase = "Reconstructing" /\ overtaken /\ NumWindows >= 3
    /\ pc[NumWindows] = "done"
    /\ \A w \in Windows : Succeeded(w)
    /\ \A i \in 1..Len(translated_sentences) : translated_sentences[i] # <<>>

(***************************************************************************)
(* C8: the number of backend calls in flight, primary and fallback         *)
(* together, never exceeds max_concurrent_requests; a task enters only     *)
(* while fewer than that many calls are in flight.                         *)
(***************************************************************************)
C8_InFlightBound == Cardinality(InFlight) <= MaxConcurrentRequests

C8_WaitsWhenSaturated ==
    \A w \in Windows :
        (pc[w] = "created" /\ pc'[w] = "primary") =>
            Cardinality(InFlight) < MaxConcurrentRequests

C8_ConcurrencyBound == [](C8_InFlightBound) /\ [][C8_WaitsWhenSaturated]_vars

C8_Witness ==
    /\ Cardinality(InFlight) = MaxConcurrentRequests
    /\ \E w \in Windows : pc[w] = "created"
    /\ \E w \in Windows : pc[w] = "primary"
    /\ \E w \in Windows : pc[w] = "fallback"
    /\ ~ENABLED (\E w \in Windows : Acquire(w))

(***************************************************************************)
(* C9: a task gives its slot back on every way out, so the free slots are  *)
(* always N minus the calls in flight, and N again once the job is Done.   *)
(***************************************************************************)
C9_SlotsReleased ==
    /\ semaphore = MaxConcurrentRequests - Cardinality(InFlight)
    /\ Done => semaphore = MaxConcurrentRequests

C9_Witness ==
    /\ Done /\ semaphore = MaxConcurrentRequests
    /\ \E w \in Windows : outcome[w] = "raised"
    /\ \E w \in Windows : outcome[w] = "failed"
    /\ \E w \in Windows : Succeeded(w)

(***************************************************************************)
(* C10: a window that fails terminally leaves its siblings as they are;    *)
(* the job aggregates and reconstructs only when every window has ended    *)
(* with an outcome of its own.                                             *)
(***************************************************************************)
C10_AllSettled ==
    (phase \in {"Reconstructing", "Done"}) =>
        \A w \in Windows :
            pc[w] = "done" /\ (TerminallyFailed(w) \/ Succeeded(w))

C10_FailureIsolated ==
    \A w \in Windows :
        (pc[w] # "done" /\ TerminallyFailed(w)') =>
            /\ phase' = "Translating"
            /\ \A v \in Windows \ {w} :
                   pc'[v] = pc[v] /\ outcome'[v] = outcome[v]

C10_NoCancellation == [](C10_AllSettled) /\ [][C10_FailureIsolated]_vars

C10_Witness ==
    /\ Done /\ NumWindows >= 2 /\ ~overtaken
    /\ outcome[1] = "failed"
    /\ \A w \in Windows \ {1} : Succeeded(w)

(***************************************************************************)
(* C11: translate() always returns a job; when an exception is raised      *)
(* inside it (here by windowing, after parsing), the job has status        *)
(* failure, an error message, and the statistics accrued so far, with      *)
(* total_sentences as counted by the completed parse.                      *)
(***************************************************************************)
C11_NeverPropagates ==
    Done =>
        /\ job # <<>>
        /\ RangeRaises(settings.context_window_size) =>
            /\ job[1].status = "failure"
            /\ job[1].error # None
            /\ job[1].stats =
                   [TranslationStats EXCEPT
                        !.total_sentences = Len(Sentences(parsed))]

C11_Witness ==
    /\ Done /\ RangeRaises(settings.context_window_size)
    /\ job # <<>> /\ job[1].status = "failure"
    /\ job[1].stats.total_sentences >= 2

(***************************************************************************)
(* C12 as stated: when every window fails terminally, the job returned by  *)
(* translate() has empty translated content, status failure and an error   *)
(* message.                                                                *)
(***************************************************************************)
C12_TotalFailureJobEmpty ==
    (Done /\ NumWindows >= 1 /\ \A w \in Windows : TerminallyFailed(w)) =>
        /\ job[1].translated_content = <<>>
        /\ job[1].status = "failure"
        /\ job[1].error # None

(***************************************************************************)
(* C12 amended: when every window fails terminally, the job returned by    *)
(* translate() has status failure, no error message, and as content the    *)
(* reconstructed text whose every line is the placeholder; the empty       *)
(* content and the error message "Translation failed" are those of the     *)
(* response the endpoint translate_subtitle builds from that job.          *)
(***************************************************************************)
C12_TotalFailureResponse ==
    (Done /\ NumWindows >= 1 /\ \A w \in Windows : TerminallyFailed(w)) =>
        /\ job[1].status = "failure"
        /\ job[1].error = None
        /\ job[1].translated_content =
               Reconstruct(parsed, [i \in 1..Len(parsed.sentence_map) |->
                                        Placeholder])
        /\ job[1].translated_content # <<>>
        /\ TranslateSubtitleResponse(job[1]).translated_srt_content = <<>>
        /\ TranslateSubtitleResponse(job[1]).status = "failure"
        /\ TranslateSubtitleResponse(job[1]).error_message =
               Some(<<"Translation", " ", "failed">>)

C12_Witness ==
    /\ Done /\ NumWindows >= 2
    /\ \A w \in Windows : TerminallyFailed(w)
    /\ \E w \in Windows : outcome[w] = "failed"
    /\ Contains(job[1].translated_content, Placeholder)

(***************************************************************************)
(* C13: round trip.  Reconstructing a parsed document with its own         *)
(* sentences and parsing the result again gives the same entries: same     *)
(* count, same index, start time, end time and text.                       *)
(***************************************************************************)
C13_RoundTrip ==
    (codec.step = "reparsed"
        /\ codec.translated = Sentences(codec.parsed)) =>
        /\ Len(codec.reparsed.entries) = Len(codec.parsed.entries)
        /\ \A k \in 1..Len(codec.parsed.entries) :
               codec.reparsed.entries[k] = codec.parsed.entries[k]

C13_Witness ==
    /\ codec.step = "reparsed"
    /\ codec.translated = Sentences(codec.parsed)
    /\ Len(codec.parsed.entries) = 3
    /\ codec.output # codec.content
    /\ \E k \in 1..3 : Len(Split(codec.parsed.entries[k].text, "\n")) = 3
    /\ \E k \in 1..3 : codec.parsed.entries[k].end_time = "00:00:06.000"

\* the units (positions in the flat list) of entry k of the codec's document
CodecUnits(k) ==
    {i \in 1..Len(codec.parsed.sentence_map) :
        codec.parsed.sentence_map[i][1] = k - 1}

\* the block of entry k of the codec's document with its original text
OriginalBlock(k) ==
    IntStr(codec.parsed.entries[k].index) \o NL
        \o Timestamp(codec.parsed.entries[k]) \o NL
        \o codec.parsed.entries[k].text

(***************************************************************************)
(* C14: given fewer translated units (M) than the unit map has (L), every  *)
(* entry with a line at a position >= M is emitted with its complete       *)
(* original text: no entry is emitted with a part of its lines.            *)
(***************************************************************************)
C14_ShortListKeepsOriginal ==
    (codec.step = "reconstructed"
        /\ Len(codec.translated) < Len(codec.parsed.sentence_map)) =>
        LET blocks == ReSplitBlank(codec.output)
        IN  /\ Len(blocks) = Len(codec.parsed.entries)
            /\ \A k \in 1..Len(codec.parsed.entries) :
                   (\E i \in CodecUnits(k) : i > Len(codec.translated)) =>
                       blocks[k] = OriginalBlock(k)

\* s is syntactically well-formed SRT text of n blocks
WellFormed(s, n) ==
    IF n = 0 THEN s = <<>>
    ELSE LET blocks == ReSplitBlank(s)
         IN  /\ Len(blocks) = n
             /\ \A b \in 1..Len(blocks) :
                    LET lines == Split(blocks[b], "\n")
                    IN  /\ Len(lines) >= 3
                        /\ IsInt(lines[1])
                        /\ TimestampMatch(lines[2]) # <<>>
                        /\ \A l \in 1..Len(lines) : lines[l] # <<>>

(***************************************************************************)
(* C15: reconstruct produces well-formed SRT text for any document and any *)
(* translated list (shorter, longer, with empty strings): one block per    *)
(* entry, each with an index line, a timestamp line and text lines, none   *)
(* of them blank.                                                          *)
(***************************************************************************)
C15_AlwaysWellFormed ==
    codec.step = "reconstructed" =>
        WellFormed(codec.output, Len(codec.parsed.entries))

\* the positions of the line breaks of a text, and its l-th line (from 0)
Breaks(text) == {i \in 1..Len(text) : text[i] = "\n"}

NthBreak(text, n) ==
    CHOOSE p \in Breaks(text) :
        Cardinality({q \in Breaks(text) : q < p}) = n - 1

NthLine(text, l) ==
    SubSeq(text,
           IF l = 0 THEN 1 ELSE NthBreak(text, l) + 1,
           IF l = Cardinality(Breaks(text)) THEN Len(text)
           ELSE NthBreak(text, l + 1) - 1)

\* the sum of 1 + (line breaks of the text) over the first n entries
LineCount(entries, n) ==
    LET F[k \in 0..n] ==
            IF k = 0 THEN 0
            ELSE F[k-1] + 1 + Cardinality(Breaks(entries[k].text))
    IN  F[n]

(***************************************************************************)
(* C16: after parse, the unit map and the flat sentence list have the same *)
(* length, the sum over the entries of 1 + the line breaks of the text;    *)
(* the i-th pair (e, l) names the l-th line of entry e, which is the i-th  *)
(* sentence; pairs are in entry order, then line order.                    *)
(***************************************************************************)
C16_SentenceMap ==
    codec.step # "input" =>
        LET doc == codec.parsed
            map == doc.sentence_map
        IN  /\ Len(map) = Len(Sentences(doc))
            /\ Len(map) = LineCount(doc.entries, Len(doc.entries))
            /\ \A i \in 1..Len(map) :
                   /\ map[i][1] \in 0..(Len(doc.entries) - 1)
                   /\ map[i][2] \in
                        0..Cardinality(Breaks(doc.entries[map[i][1] + 1].text))
                   /\ i = LineCount(doc.entries, map[i][1]) + map[i][2] + 1
                   /\ Sentences(doc)[i] =
                        NthLine(doc.entries[map[i][1] + 1].text, map[i][2])

C16_Witness ==
    /\ codec.step = "parsed"
    /\ codec.shapes = <<"two", "nots", "loose">>
    /\ codec.parsed.sentence_map =
           << <<0, 0>>, <<0, 1>>, <<1, 0>>, <<1, 1>>, <<1, 2>> >>

\* the concatenation of the sentences of the first n chunks
ChunkConcat(cs, n) ==
    LET F[k \in 0..n] ==
            IF k = 0 THEN <<>> ELSE F[k-1] \o cs[k].sentences
    IN  F[n]

(***************************************************************************)
(* C17: create_chunks partitions the list into consecutive windows: their  *)
(* concatenation is the list, every window but the last has exactly        *)
(* chunk_size units, the last has 1..chunk_size, and an empty list gives   *)
(* no window.                                                              *)
(***************************************************************************)
C17_ChunkPartition ==
    codec.step = "chunked" =>
        LET cs == codec.chunks
            size == codec.chunk_size
        IN  /\ ChunkConcat(cs, Len(cs)) = Sentences(codec.parsed)
            /\ \A k \in 1..Len(cs) :
                   /\ k < Len(cs) => Len(cs[k].sentences) = size
                   /\ Len(cs[k].sentences) \in 1..size
            /\ Sentences(codec.parsed) = <<>> => cs = <<>>

C17_Witness ==
    /\ codec.step = "chunked"
    /\ codec.chunk_size = 2
    /\ Len(codec.chunks) = 3
    /\ Len(codec.chunks[3].sentences) = 1

\* the entry a well-formed block of this shape stands for
CodecEntry(shape, k, j) ==
    CASE shape = "one" ->
            SubtitleEntry(k, TimeTok[k], TimeTok[k + 1], <<UnitTok[j]>>)
      [] shape = "two" ->
            SubtitleEntry(k, TimeTok[k], "00:00:06.000",
                          <<UnitTok[j], "\n", UnitTok[j + 1]>>)
      [] shape = "loose" ->
            SubtitleEntry(1, TimeTok[k], TimeTok[k + 1],
                          <<UnitTok[j], " ", "\n", " ", "\n", UnitTok[j + 1]>>)

\* the entries of the well-formed blocks of a document, in document order
GoodEntries(shapes) ==
    LET first == CodecFirstLine(shapes)
        F[k \in 0..Len(shapes)] ==
            IF k = 0 THEN <<>>
            ELSE IF shapes[k] \in GoodShapes
                 THEN Append(F[k-1], CodecEntry(shapes[k], k, first[k]))
                 ELSE F[k-1]
    IN  F[Len(shapes)]

(***************************************************************************)
(* C18: a block with fewer than three lines, a non-integer first line or a *)
(* second line that is no timestamp line is dropped silently: the entries  *)
(* are those of the well-formed blocks, in document order, and a dropped   *)
(* block contributes nothing to the unit map.                              *)
(***************************************************************************)
C18_MalformedDropped ==
    codec.step # "input" =>
        /\ codec.parsed.entries = GoodEntries(codec.shapes)
        /\ Len(codec.parsed.sentence_map) =
               LineCount(GoodEntries(codec.shapes),
                         Len(GoodEntries(codec.shapes)))

C18_Witness ==
    /\ codec.step = "parsed"
    /\ Len(codec.shapes) = 3
    /\ codec.shapes[1] \in GoodShapes
    /\ codec.shapes[2] \in BadShapes
    /\ codec.shapes[3] \in GoodShapes
    /\ Len(codec.parsed.entries) = 2

\* the call ended with a fault of the remote call or without a credential
FailureCase ==
    /\ backend.texts # <<>>
    /\ \/ backend.reply.kind \in {"exception", "status"}
       \/ backend.service = "deepl" /\ backend.api_key = <<>>

\* the remote service answered with fewer items than texts were sent
ShortReply ==
    /\ backend.reply.kind \in {"content", "json"}
    /\ Len(backend.items) < Len(backend.texts)

\* translate returned success = false with a reason string
ReportedFailure ==
    /\ backend.result[1] # Propagated
    /\ ~backend.result[1].success
    /\ backend.result[1].error # None
    /\ backend.result[1].error[1] # <<>>

(***************************************************************************)
(* C19: when a backend reports success, its translated-text list has the   *)
(* length of the input list for every raw reply: the items of the reply in *)
(* order, cut to the requested count, and "" for each item that is missing.*)
(***************************************************************************)
C19_LengthContract ==
    (backend.step = "returned" /\ backend.result[1].success) =>
        LET translated == backend.result[1].translated_texts
        IN  /\ Len(translated) = Len(backend.texts)
            /\ \A i \in 1..Len(translated) :
                   translated[i] = IF i <= Len(backend.items)
                                   THEN backend.items[i] ELSE <<>>

C19_Witness ==
    /\ backend.step = "returned"
    /\ backend.service = "openai"
    /\ Len(backend.texts) = 2
    /\ Len(backend.items) = 3
    /\ backend.result[1].success
    /\ Len(backend.result[1].translated_texts) = 2

(***************************************************************************)
(* C20 as stated: a network error, a non-2xx response, a malformed or      *)
(* short reply and a missing credential are each reported as a failure     *)
(* with a reason string, never raised and never reported as a success.     *)
(***************************************************************************)
C20_ShortReplyIsFailure ==
    backend.step = "returned" =>
        /\ backend.result[1] # Propagated
        /\ (FailureCase \/ ShortReply) => ReportedFailure

(***************************************************************************)
(* C20, amended: a network error, a non-2xx response, an undecodable reply *)
(* and a missing credential are each reported as a failure with a reason   *)
(* string and one "" per text, and translate never raises; a decodable     *)
(* reply with fewer items than texts, an empty one included, is padded     *)
(* with "" and reported as a success.                                      *)
(***************************************************************************)
C20_FaultsReported ==
    backend.step = "returned" =>
        /\ backend.result[1] # Propagated
        /\ FailureCase =>
               /\ ReportedFailure
               /\ backend.result[1].translated_texts =
                      EmptyTexts(Len(backend.texts))
        /\ ShortReply =>
               /\ backend.result[1].success
               /\ backend.result[1].error = None
               /\ \A i \in (Len(backend.items) + 1)..Len(backend.texts) :
                      backend.result[1].translated_texts[i] = <<>>

C20_Witness ==
    /\ backend.step = "returned"
    /\ backend.service = "deepl"
    /\ Len(backend.texts) = 2
    /\ backend.reply = Status(<<"500">>)
    /\ backend.result[1] =
           TranslationResult(EmptyTexts(2), FALSE,
               Some(<<"DeepL", " ", "API", " ", "error:", " ", "500">>),
               "deepl")

(***************************************************************************)
(* C21: per window the primary backend is called exactly once; the         *)
(* fallback is called at most once and only after the primary call of that *)
(* window returned a failure; a window whose primary succeeded has no      *)
(* fallback call, and after the fallback failed too no call is made or in  *)
(* flight for the window.                                                  *)
(***************************************************************************)
C21_CallsPerWindow ==
    \A w \in Windows :
        /\ calls[w].openai = (IF pc[w] = "created" THEN 0 ELSE 1)
        /\ calls[w].deepl <= 1
        /\ calls[w].deepl = 1 =>
               /\ primary_result[w] # <<>>
               /\ ~primary_result[w][1].success
        /\ outcome[w] = "primary" => calls[w].deepl = 0
        /\ outcome[w] = "failed" =>
               /\ calls[w] = [openai |-> 1, deepl |-> 1]
               /\ pc[w] = "done"
        /\ pc[w] = "done" => call[w] = <<>>

C21_Witness ==
    /\ Done
    /\ \E w, v \in Windows :
           /\ outcome[w] = "failed"
           /\ calls[w] = [openai |-> 1, deepl |-> 1]
           /\ outcome[v] = "primary"
           /\ calls[v] = [openai |-> 1, deepl |-> 0]

(***************************************************************************)
(* C22: after aggregation the flat list holds, for every unit of a         *)
(* terminally failed window, the placeholder "[Translation Error]", and    *)
(* for every unit of a succeeding window the text its backend returned;    *)
(* failed_sentences is the sum of the unit counts of the failed windows    *)
(* and translated_sentences the sum of those of the succeeding windows.    *)
(* Before aggregation both counters are 0.                                 *)
(***************************************************************************)
C22_Aggregation ==
    /\ phase \in {"Parsing", "Windowing", "Translating"} =>
           /\ stats.failed_sentences = 0
           /\ stats.translated_sentences = 0
           /\ translated_sentences = <<>>
    /\ phase \in {"Reconstructing", "Done"} =>
           /\ Len(translated_sentences) = UnitsOf(Windows)
           /\ \A i \in 1..Len(translated_sentences) :
                  translated_sentences[i] =
                      IF TerminallyFailed(WindowOf(i)) THEN Placeholder
                      ELSE results[WindowOf(i)].value[OffsetOf(i)]
           /\ stats.failed_sentences =
                  UnitsOf({w \in Windows : TerminallyFailed(w)})
           /\ stats.translated_sentences =
                  UnitsOf({w \in Windows : Succeeded(w)})

C22_Witness ==
    /\ phase = "Reconstructing"
    /\ \E w, v, u \in Windows :
           /\ outcome[w] = "failed" /\ Len(chunks[w].sentences) = 2
           /\ outcome[v] = "primary"
           /\ outcome[u] = "fallback"
    /\ stats.failed_sentences >= 2
    /\ stats.translated_sentences >= 2

\* the windows whose task makes the given outcome in the step
Becomes(how) ==
    {w \in DOMAIN outcome' : outcome'[w] = how /\ outcome[w] # how}

(***************************************************************************)
(* C23: no increment of a counter of the job's statistics is lost, in any  *)
(* interleaving of the window tasks: every step adds to openai_calls the   *)
(* number of tasks that return a primary translation in it and to          *)
(* deepl_calls the number of tasks that return a fallback translation in   *)
(* it, so that at every moment each counter equals the number of           *)
(* increments performed so far.                                            *)
(***************************************************************************)
C23_NoLostUpdate ==
    /\ [](/\ stats.openai_calls =
                Cardinality({w \in Windows : outcome[w] = "primary"})
          /\ stats.deepl_calls =
                Cardinality({w \in Windows : outcome[w] = "fallback"}))
    /\ [][/\ stats'.openai_calls =
                stats.openai_calls + Cardinality(Becomes("primary"))
          /\ stats'.deepl_calls =
                stats.deepl_calls + Cardinality(Becomes("fallback"))]_vars

\* two tasks overlapped, ended in reverse order, and both counters moved
C23_Witness ==
    /\ Done
    /\ overtaken
    /\ stats.openai_calls = 2
    /\ stats.deepl_calls = 1

\* the order of the phases of translate()
PhaseOrder ==
    {<<"Parsing", "Windowing">>, <<"Windowing", "Translating">>,
     <<"Translating", "Reconstructing">>, <<"Reconstructing", "Done">>}

C24_PhaseState ==
    /\ phase \in {"Parsing", "Windowing"} =>
           /\ Windows = {}
           /\ chunks = <<>>
    /\ phase = "Parsing" => parsed = NoDocument
    /\ phase \in {"Translating", "Reconstructing", "Done"} =>
           /\ parsed = Parse(srt_content)
           /\ chunks = CreateChunks(Sentences(parsed),
                                    settings.context_window_size)
           /\ Windows = DOMAIN chunks
    /\ phase \in {"Reconstructing", "Done"} =>
           \A w \in Windows : pc[w] = "done"
    /\ phase # "Done" => job = <<>>

C24_PhaseStep ==
    /\ phase' # phase => <<phase, phase'>> \in PhaseOrder
    /\ (pc' # pc /\ pc # <<>>) => phase = "Translating"
    /\ (calls' # calls /\ calls # <<>>) =>
           phase = "Translating" /\ phase' = "Translating"
    /\ translated_sentences' # translated_sentences =>
           phase = "Translating" /\ phase' = "Reconstructing"

(***************************************************************************)
(* C24: a job passes through Parsing, Windowing, Translating,              *)
(* Reconstructing, Done in this order and enters no phase twice; backend   *)
(* calls start only when the whole document is parsed and windowed,        *)
(* reconstruction starts only when every window has settled, and no result *)
(* exists before Done.                                                     *)
(***************************************************************************)
C24_PhaseOrder == [](C24_PhaseState) /\ [][C24_PhaseStep]_vars

C24_Witness ==
    /\ phase = "Reconstructing"
    /\ NumWindows = 3
    /\ overtaken
    /\ job = <<>>

\* the translated units of entry k that lie among the first n, in order
UnitsGiven(k, n) ==
    LET given == {i \in CodecUnits(k) : i <= n}
        F[j \in 0..Cardinality(given)] ==
            IF j = 0 THEN <<>>
            ELSE Append(F[j-1],
                        codec.translated[
                            CHOOSE i \in given :
                                Cardinality({h \in given : h < i}) = j - 1])
    IN  F[Cardinality(given)]

\* the text built from the first n translated units alone
OutputOfFirst(n) ==
    Join([k \in 1..Len(codec.parsed.entries) |->
             IntStr(codec.parsed.entries[k].index) \o NL
                 \o Timestamp(codec.parsed.entries[k]) \o NL
                 \o (IF UnitsGiven(k, n) = <<>>
                     THEN codec.parsed.entries[k].text
                     ELSE Join(UnitsGiven(k, n), NL))],
         <<"\n", "\n">>)

(***************************************************************************)
(* C25: for a unit map of length L and a translated list of length M,      *)
(* reconstruct consumes the first min(L, M) translated units only: the     *)
(* output is the text built from these units, and for M > L it is the text *)
(* built from the first L units alone.                                     *)
(***************************************************************************)
C25_SurplusIgnored ==
    codec.step = "reconstructed" =>
        LET L == Len(codec.parsed.sentence_map)
            M == Len(codec.translated)
        IN  /\ codec.output = OutputOfFirst(IF L < M THEN L ELSE M)
            /\ M > L => codec.output = OutputOfFirst(L)

C25_Witness ==
    /\ codec.step = "reconstructed"
    /\ Len(codec.parsed.sentence_map) = 3
    /\ Len(codec.translated) = 4
    /\ codec.translated[4] = <<"extra">>
    /\ ~Contains(codec.output, <<"extra">>)

C26_Frame ==
    (codec.step = "translated" /\ codec'.step = "reconstructed") =>
        /\ codec'.parsed = codec.parsed
        /\ codec'.translated = codec.translated
        /\ codec'.content = codec.content

(***************************************************************************)
(* C26: reconstruct leaves the Document unchanged: the entries (index,     *)
(* start time, end time, text) and the unit map after the call are those   *)
(* before the call, and the translated list passed in is not modified.     *)
(***************************************************************************)
C26_DocumentUnchanged ==
    /\ [](codec.step \in {"parsed", "chunked", "translated", "reconstructed",
                          "reparsed"} => codec.parsed = Parse(codec.content))
    /\ [][C26_Frame]_vars

C26_Witness ==
    /\ codec.step = "reconstructed"
    /\ Len(codec.parsed.entries) = 2
    /\ Len(codec.translated) = Len(codec.parsed.sentence_map)
    /\ codec.translated # Sentences(codec.parsed)
    /\ codec.output # <<>>
    /\ codec.parsed = Parse(codec.content)

(***************************************************************************)
(* C27: a job that reaches Done without a job-level exception has          *)
(* translated_sentences + failed_sentences = total_sentences, and the flat *)
(* list given to reconstruct has exactly as many elements as the unit map. *)
(***************************************************************************)
C27_Conservation ==
    (Done /\ job # <<>> /\ job[1].error = None) =>
        /\ job[1].stats.translated_sentences + job[1].stats.failed_sentences
               = job[1].stats.total_sentences
        /\ job[1].stats.total_sentences = Len(parsed.sentence_map)
        /\ Len(translated_sentences) = Len(parsed.sentence_map)
        /\ \A w \in Windows :
               Succeeded(w) => Len(results[w].value) = Len(chunks[w].sentences)

C27_Witness ==
    /\ Done
    /\ job[1].error = None
    /\ job[1].stats.total_sentences = 5
    /\ job[1].stats.translated_sentences = 3
    /\ job[1].stats.failed_sentences = 2
    /\ Len(translated_sentences) = 5

(***************************************************************************)
(* C28: at Done openai_calls is the number of windows whose primary call   *)
(* succeeded and deepl_calls the number of windows whose primary call      *)
(* failed and whose fallback call succeeded; their sum is the number of    *)
(* windows that did not fail terminally, and a call that fails is counted  *)
(* in neither counter.                                                     *)
(***************************************************************************)
C28_CallCounters ==
    (Done /\ job # <<>> /\ job[1].error = None) =>
        LET primary_ok == {w \in Windows :
                               calls[w] = [openai |-> 1, deepl |-> 0]
                                   /\ results[w].kind = "value"}
            fallback_ok == {w \in Windows :
                                calls[w] = [openai |-> 1, deepl |-> 1]
                                    /\ primary_result[w] # <<>>
                                    /\ ~primary_result[w][1].success
                                    /\ results[w].kind = "value"}
            failed == {w \in Windows : results[w].kind = "exception"}
        IN  /\ job[1].stats.openai_calls = Cardinality(primary_ok)
            /\ job[1].stats.deepl_calls = Cardinality(fallback_ok)
            /\ job[1].stats.openai_calls + job[1].stats.deepl_calls
                   = NumWindows - Cardinality(failed)
            /\ (\A w \in Windows : w \in failed) =>
                   /\ job[1].stats.openai_calls = 0
                   /\ job[1].stats.deepl_calls = 0

C28_Witness ==
    /\ Done
    /\ NumWindows = 3
    /\ \E w, v, u \in Windows :
           /\ outcome[w] = "primary"
           /\ outcome[v] = "fallback"
           /\ outcome[u] = "failed"
    /\ job[1].stats.openai_calls = 1
    /\ job[1].stats.deepl_calls = 1

\* the task of window w ended with the exception its primary call raised
PrimaryRaisedIn(w) == results[w] = Raised(PrimaryRaised)

C29_State ==
    /\ \A w \in Windows :
           /\ primary_result[w] # <<>> =>
                  primary_result[w][1] \in OpenAITranslate(chunks[w].sentences)
           /\ PrimaryRaisedIn(w) =>
                  /\ calls[w] = [openai |-> 1, deepl |-> 0]
                  /\ pc[w] = "done"
                  /\ TerminallyFailed(w)
    /\ Done =>
           /\ job # <<>>
           /\ job[1].error = None
           /\ semaphore = SemaphoreInit
           /\ job[1].stats.failed_sentences >=
                  UnitsOf({w \in Windows : PrimaryRaisedIn(w)})
           /\ \A i \in 1..Len(translated_sentences) :
                  /\ PrimaryRaisedIn(WindowOf(i)) =>
                         translated_sentences[i] = Placeholder
                  /\ Succeeded(WindowOf(i)) =>
                         translated_sentences[i] =
                             results[WindowOf(i)].value[OffsetOf(i)]

C29_Step ==
    \A w \in Windows :
        (pc[w] = "primary" /\ PrimaryRaisedIn(w)') =>
            /\ semaphore' = semaphore + 1
            /\ calls'[w] = calls[w]
            /\ \A v \in Windows \ {w} :
                   /\ pc'[v] = pc[v]
                   /\ call'[v] = call[v]
                   /\ results'[v] = results[v]

(***************************************************************************)
(* C29: when the primary call of a window raises instead of returning a    *)
(* failure outcome, the fallback is not called for the window, the slot is *)
(* released, the window is terminally failed (placeholders, its units      *)
(* added to failed_sentences), the sibling windows are left as they are    *)
(* and the job completes.                                                  *)
(***************************************************************************)
C29_PrimaryException == [](C29_State) /\ [][C29_Step]_vars

C29_Witness ==
    /\ Done
    /\ job[1].status = "partial"
    /\ \E w, v \in Windows :
           /\ PrimaryRaisedIn(w)
           /\ Len(chunks[w].sentences) = 2
           /\ Succeeded(v)
    /\ semaphore = SemaphoreInit

\* the windows, of all jobs, that hold a slot
Holders(p) ==
    {jw \in Jobs \X (1..MaxJobWindows) :
        /\ jw[2] \in DOMAIN p.pc[jw[1]]
        /\ p.pc[jw[1]][jw[2]] \in {"primary", "fallback"}}

C30_State ==
    pool.step = "shared" =>
        /\ Cardinality(Holders(pool)) <= MaxConcurrentRequests
        /\ \A o \in DOMAIN pool.semaphore :
               pool.semaphore[o] =
                   MaxConcurrentRequests - Cardinality(Holders(pool))

C30_Step ==
    pool.step = "shared" =>
        \A jw \in Holders(pool') \ Holders(pool) :
            Cardinality(Holders(pool)) < MaxConcurrentRequests

(***************************************************************************)
(* C30: the concurrency limiter belongs to the translator, not to a job:   *)
(* with several jobs running on the same instance, the number of windows   *)
(* holding a slot, over all jobs, is at most max_concurrent_requests, and  *)
(* a window of one job gets a slot only while fewer than that many windows *)
(* of any job hold one.                                                    *)
(***************************************************************************)
C30_SharedLimit == [](C30_State) /\ [][C30_Step]_vars

\* both slots are held by job 1 and a window of job 2 waits for one
C30_Witness ==
    /\ pool.step = "shared"
    /\ Cardinality({jw \in Holders(pool) : jw[1] = 1}) = MaxConcurrentRequests
    /\ pool.running[2] = "translating"
    /\ \E w \in DOMAIN pool.pc[2] : pool.pc[2][w] = "created"
    /\ \A o \in DOMAIN pool.semaphore : Locked(pool.semaphore[o])

\* the blocks of an SRT text: the pieces between runs of blank lines,
\* without the white space around the text
BlocksOf(text) ==
    IF Strip(text) = <<>> THEN <<>> ELSE ReSplitBlank(Strip(text))

(***************************************************************************)
(* C31: for every job that completes without a job-level exception,        *)
(* whatever windows succeeded or failed, the output has exactly one block  *)
(* per entry of the parsed Document, in document order, and each block     *)
(* starts with the index line and the timestamp line (start and end time)  *)
(* of its entry; only the text differs.                                    *)
(***************************************************************************)
C31_OneBlockPerEntry ==
    (Done /\ job # <<>> /\ job[1].error = None) =>
        LET blocks == BlocksOf(job[1].translated_content)
        IN  /\ Len(blocks) = Len(parsed.entries)
            /\ \A k \in 1..Len(blocks) :
                   LET lines == Split(blocks[k], "\n")
                   IN  /\ Len(lines) >= 2
                       /\ lines[1] = IntStr(parsed.entries[k].index)
                       /\ lines[2] = <<parsed.entries[k].start_time,
                                        " ", "-->", " ",
                                        parsed.entries[k].end_time>>

(***************************************************************************)
(* C32: if every backend call eventually returns (a success, a failure or  *)
(* an exception), every job eventually reaches Done and returns, also with *)
(* more windows than slots: every window that waits for a slot has got one *)
(* and has ended, the tasks never block one another for ever.  (The        *)
(* semaphore has at least one slot.)                                       *)
(***************************************************************************)
C32_Termination ==
    <>(/\ Done
       /\ job # <<>>
       /\ \A w \in Windows : pc[w] = "done")

C32_Witness ==
    /\ Done
    /\ job # <<>>
    /\ NumWindows > MaxConcurrentRequests
    /\ overtaken
    /\ \E w, v \in Windows : outcome[w] = "raised" /\ outcome[v] = "fallback"

====
